---- MODULE Spec2Model ----
(***************************************************************************)
(* FolderSnapshot: a directory tree is packed into one text artifact       *)
(* (gather_files_to_txt, gather_files_to_txt_compressed) and unpacked      *)
(* again (restore_files_from_txt, restore_files_from_compressed_txt).      *)
(*                                                                         *)
(* Text is modelled by TLA+ strings: Len, SubSeq and \o act on them as on  *)
(* sequences of characters.  File contents on disk are sequences of bytes  *)
(* (0..255); reading or writing a file in text mode goes through           *)
(* utf8_decode / utf8_encode.                                              *)
(***************************************************************************)
EXTENDS Integers, Sequences, FiniteSets, TLC

(***************************************************************************)
(* Bounds of the model.                                                    *)
(***************************************************************************)
MaxEntries == 2
MaxRestores == 2
MaxClock == 1
MaxSnapshots == 2

(***************************************************************************)
(* Python string primitives used by the program.                           *)
(***************************************************************************)
Ch(s, i) == SubSeq(s, i, i)

startswith(s, p) == Len(s) >= Len(p) /\ SubSeq(s, 1, Len(p)) = p

startswith_any(s, ps) == \E p \in ps : startswith(s, p)

contains(s, p) == \E i \in 1..(Len(s) - Len(p) + 1) : SubSeq(s, i, i + Len(p) - 1) = p

Whitespace == {" ", "\t", "\n", "\r", "\f"}

lstrip_chars(s, cs) ==
    LET keep == {i \in 1..Len(s) : Ch(s, i) \notin cs}
    IN  IF keep = {} THEN "" ELSE SubSeq(s, CHOOSE i \in keep : \A j \in keep : i <= j, Len(s))

rstrip_chars(s, cs) ==
    LET keep == {i \in 1..Len(s) : Ch(s, i) \notin cs}
    IN  IF keep = {} THEN "" ELSE SubSeq(s, 1, CHOOSE i \in keep : \A j \in keep : i >= j)

strip_chars(s, cs) == lstrip_chars(rstrip_chars(s, cs), cs)

strip(s) == strip_chars(s, Whitespace)

rstrip(s) == rstrip_chars(s, Whitespace)

\* s.split(sep) for a one-character separator: n separators give n+1 pieces
split(s, sep) ==
    LET P == {i \in 1..Len(s) : Ch(s, i) = sep}
        n == Cardinality(P)
        at(k) == IF k = 0 THEN 0
                 ELSE IF k = n + 1 THEN Len(s) + 1
                 ELSE CHOOSE p \in P : Cardinality({q \in P : q <= p}) = k
    IN  [k \in 1..(n + 1) |-> SubSeq(s, at(k - 1) + 1, at(k) - 1)]

\* s.split(sep, 1): at most one split, at the first separator
split1(s, sep) ==
    LET P == {i \in 1..Len(s) : Ch(s, i) = sep}
    IN  IF P = {} THEN <<s>>
        ELSE LET p == CHOOSE i \in P : \A j \in P : i <= j
             IN  <<SubSeq(s, 1, p - 1), SubSeq(s, p + 1, Len(s))>>

RECURSIVE join(_, _)
join(sep, parts) ==
    IF Len(parts) = 0 THEN ""
    ELSE IF Len(parts) = 1 THEN parts[1]
    ELSE parts[1] \o sep \o join(sep, Tail(parts))

(***************************************************************************)
(* Characters and bytes.  The model's text has the code points 9, 10, 13,  *)
(* 32..126 and 192..255 (HighChars).  A TLA+ string cannot hold the grave  *)
(* accent (code 96): the acute accent stands for it in the tables.         *)
(***************************************************************************)
Printable == " !\"#$%&'()*+,-./0123456789:;<=>?@ABCDEFGHIJKLMNOPQRSTUVWXYZ[\\]^_´abcdefghijklmnopqrstuvwxyz{|}~"

HighChars == "ÀÁÂÃÄÅÆÇÈÉÊËÌÍÎÏÐÑÒÓÔÕÖ×ØÙÚÛÜÝÞßàáâãäåæçèéêëìíîïðñòóôõö÷øùúûüýþÿ"

IndexIn(alphabet, c) ==
    LET P == {i \in 1..Len(alphabet) : Ch(alphabet, i) = c}
    IN  IF P = {} THEN -1 ELSE (CHOOSE i \in P : TRUE) - 1

CharsOf(alphabet) == {Ch(alphabet, i) : i \in 1..Len(alphabet)}

\* the index of every character of an alphabet, as a table
IndexTable(alphabet) == [c \in CharsOf(alphabet) |-> IndexIn(alphabet, c)]

OrdTable ==
    [c \in CharsOf(Printable) \cup CharsOf(HighChars) \cup {"\t", "\n", "\r"} |->
        IF c = "\t" THEN 9
        ELSE IF c = "\n" THEN 10
        ELSE IF c = "\r" THEN 13
        ELSE IF IndexIn(Printable, c) >= 0 THEN 32 + IndexIn(Printable, c)
        ELSE 192 + IndexIn(HighChars, c)]

ChrTable ==
    [b \in 0..255 |->
        IF b = 9 THEN "\t"
        ELSE IF b = 10 THEN "\n"
        ELSE IF b = 13 THEN "\r"
        ELSE IF b >= 32 /\ b <= 126 THEN Ch(Printable, b - 31)
        ELSE IF b >= 192 THEN Ch(HighChars, b - 191)
        ELSE ""]

ord(c) == OrdTable[c]

chr(b) == ChrTable[b]

IsAscii(b) == b \in {9, 10, 13} \/ (b >= 32 /\ b <= 126)

\* concatenation of a sequence of strings, by halves
RECURSIVE concat(_)
concat(parts) ==
    IF Len(parts) = 0 THEN ""
    ELSE IF Len(parts) = 1 THEN parts[1]
    ELSE LET h == Len(parts) \div 2
         IN  concat(SubSeq(parts, 1, h)) \o concat(SubSeq(parts, h + 1, Len(parts)))

\* concatenation of a sequence of byte sequences
RECURSIVE flatten(_)
flatten(seqs) ==
    IF Len(seqs) = 0 THEN <<>>
    ELSE IF Len(seqs) = 1 THEN seqs[1]
    ELSE LET h == Len(seqs) \div 2
         IN  flatten(SubSeq(seqs, 1, h)) \o flatten(SubSeq(seqs, h + 1, Len(seqs)))

\* str.encode('utf-8'): one byte below 128, two bytes for 192..255
utf8_encode(s) ==
    flatten([i \in 1..Len(s) |->
        LET c == ord(Ch(s, i))
        IN  IF c < 128 THEN <<c>> ELSE <<192 + (c \div 64), 128 + (c % 64)>>])

IsLead(b) == b = 195

IsCont(b) == b >= 128 /\ b <= 191

\* a byte sequence the 'utf-8' codec decodes to text of the model
utf8_valid(bytes) ==
    \A i \in 1..Len(bytes) :
        \/ IsAscii(bytes[i])
        \/ IsLead(bytes[i]) /\ i < Len(bytes) /\ IsCont(bytes[i + 1])
        \/ IsCont(bytes[i]) /\ i > 1 /\ IsLead(bytes[i - 1])

utf8_decode(bytes) ==
    concat([i \in 1..Len(bytes) |->
        IF IsAscii(bytes[i]) THEN chr(bytes[i])
        ELSE IF IsLead(bytes[i]) THEN chr(((bytes[i] - 192) * 64) + (bytes[i + 1] - 128))
        ELSE ""])

\* bytes.decode('latin1'): every byte is one character (bytes 128..191 are
\* outside the model's text)
latin1_decode(bytes) == concat([i \in 1..Len(bytes) |-> chr(bytes[i])])

\* the newline translation of a file read in text mode: \r\n and \r become \n
universal_newlines(s) ==
    concat([i \in 1..Len(s) |->
        IF Ch(s, i) = "\r" /\ i < Len(s) /\ Ch(s, i + 1) = "\n" THEN ""
        ELSE IF Ch(s, i) = "\r" THEN "\n"
        ELSE Ch(s, i)])

(***************************************************************************)
(* base64 (binary payload of a record) and base85 (compressed container).  *)
(***************************************************************************)
B64Alphabet == "ABCDEFGHIJKLMNOPQRSTUVWXYZabcdefghijklmnopqrstuvwxyz0123456789+/"

B85Alphabet == "0123456789ABCDEFGHIJKLMNOPQRSTUVWXYZabcdefghijklmnopqrstuvwxyz!#$%&()*+-;<=>?@^_´{|}~"

B64Index == IndexTable(B64Alphabet)

B85Index == IndexTable(B85Alphabet)

Pow64(k) == IF k = 0 THEN 1 ELSE IF k = 1 THEN 64 ELSE IF k = 2 THEN 4096 ELSE 262144

\* base64.b64encode(data).decode('ascii')
b64encode(data) ==
    LET n == Len(data)
        byte(i) == IF i <= n THEN data[i] ELSE 0
        word(g) == (byte((3 * g) + 1) * 65536) + (byte((3 * g) + 2) * 256) + byte((3 * g) + 3)
        char(j) == LET g == (j - 1) \div 4
                       k == (j - 1) % 4
                   IN  IF (3 * g) + k > n THEN "="
                       ELSE Ch(B64Alphabet, ((word(g) \div Pow64(3 - k)) % 64) + 1)
    IN  concat([j \in 1..(4 * ((n + 2) \div 3)) |-> char(j)])

\* binascii.a2b_base64 in its default non-strict mode: characters outside the
\* alphabet are skipped, '=' ends the data once the quad is padded, and an
\* unfinished quad at the end of the input is an error.
RECURSIVE b64scan(_, _, _, _, _, _)
b64scan(s, i, quad_pos, pads, leftchar, out) ==
    IF i > Len(s) THEN [ok |-> quad_pos = 0, data |-> out]
    ELSE LET c == Ch(s, i)
             v == IF c \in DOMAIN B64Index THEN B64Index[c] ELSE -1
         IN  IF c = "="
             THEN IF quad_pos >= 2 /\ quad_pos + pads + 1 >= 4
                  THEN [ok |-> TRUE, data |-> out]
                  ELSE b64scan(s, i + 1, quad_pos, IF quad_pos >= 2 THEN pads + 1 ELSE pads, leftchar, out)
             ELSE IF v < 0 THEN b64scan(s, i + 1, quad_pos, pads, leftchar, out)
             ELSE IF quad_pos = 0 THEN b64scan(s, i + 1, 1, 0, v, out)
             ELSE IF quad_pos = 1
                  THEN b64scan(s, i + 1, 2, 0, v % 16, Append(out, (leftchar * 4) + (v \div 16)))
             ELSE IF quad_pos = 2
                  THEN b64scan(s, i + 1, 3, 0, v % 4, Append(out, (leftchar * 16) + (v \div 4)))
             ELSE b64scan(s, i + 1, 0, 0, 0, Append(out, (leftchar * 64) + v))

\* base64.b64decode(s.encode('ascii')): [ok, data]; ok = FALSE is binascii.Error
b64decode(s) == b64scan(s, 1, 0, 0, 0, <<>>)

\* base64.b85encode(data).decode('ascii'): 4 bytes become 5 digits in base 85,
\* most significant first; the last word is zero-padded and the digits of the
\* padding are dropped.  A word is kept as two 16-bit halves.
b85encode(data) ==
    LET n == Len(data)
        padding == (4 - (n % 4)) % 4
        byte(i) == IF i <= n THEN data[i] ELSE 0
        group(g) ==
            LET hi == (byte((4 * g) + 1) * 256) + byte((4 * g) + 2)
                lo == (byte((4 * g) + 3) * 256) + byte((4 * g) + 4)
                t == ((hi % 85) * 65536) + lo
                q1 == ((hi \div 85) * 65536) + (t \div 85)
            IN  Ch(B85Alphabet, ((q1 \div 614125) % 85) + 1)
                \o Ch(B85Alphabet, ((q1 \div 7225) % 85) + 1)
                \o Ch(B85Alphabet, ((q1 \div 85) % 85) + 1)
                \o Ch(B85Alphabet, (q1 % 85) + 1)
                \o Ch(B85Alphabet, (t % 85) + 1)
        digits == concat([g \in 1..((n + 3) \div 4) |-> group(g - 1)])
    IN  SubSeq(digits, 1, Len(digits) - padding)

\* base64.b85decode(s.encode('ascii')): [ok, data]; ok = FALSE is ValueError
\* (a character outside the alphabet, or a group above 2^32 - 1)
b85decode(s) ==
    LET n == Len(s)
        padding == (5 - (n % 5)) % 5
        groups == (n + 4) \div 5
        d(i) == IF i <= n THEN B85Index[Ch(s, i)] ELSE 84
        word(g) ==
            LET top == ((((((d((5 * g) + 1) * 85) + d((5 * g) + 2)) * 85) + d((5 * g) + 3)) * 85)
                       + d((5 * g) + 4))
                low == ((top % 65536) * 85) + d((5 * g) + 5)
            IN  [hi |-> ((top \div 65536) * 85) + (low \div 65536), lo |-> low % 65536]
        words == [g \in 1..groups |-> word(g - 1)]
        bytes == flatten([g \in 1..groups |->
                     <<words[g].hi \div 256, words[g].hi % 256,
                       words[g].lo \div 256, words[g].lo % 256>>])
    IN  IF \E i \in 1..n : Ch(s, i) \notin DOMAIN B85Index THEN [ok |-> FALSE, data |-> <<>>]
        ELSE IF \E g \in 1..groups : words[g].hi >= 65536 THEN [ok |-> FALSE, data |-> <<>>]
        ELSE [ok |-> TRUE, data |-> SubSeq(bytes, 1, (4 * groups) - padding)]


(***************************************************************************)
(* Paths.                                                                  *)
(***************************************************************************)
UpperCase == "ABCDEFGHIJKLMNOPQRSTUVWXYZ"

LowerCase == "abcdefghijklmnopqrstuvwxyz"

LowerOf == [c \in CharsOf(UpperCase) |-> Ch(LowerCase, IndexIn(UpperCase, c) + 1)]

UpperOf == [c \in CharsOf(LowerCase) |-> Ch(UpperCase, IndexIn(LowerCase, c) + 1)]

lower(s) ==
    concat([i \in 1..Len(s) |-> IF Ch(s, i) \in DOMAIN LowerOf THEN LowerOf[Ch(s, i)] ELSE Ch(s, i)])

LastIndex(s, c) ==
    LET P == {i \in 1..Len(s) : Ch(s, i) = c}
    IN  IF P = {} THEN 0 ELSE CHOOSE i \in P : \A j \in P : i >= j

\* os.path.splitext: the extension starts at the last dot of the last
\* segment, unless only dots precede it in that segment
splitext(path) ==
    LET sep == LastIndex(path, "/")
        dot == LastIndex(path, ".")
    IN  IF dot > sep /\ (\E i \in (sep + 1)..(dot - 1) : Ch(path, i) # ".")
        THEN <<SubSeq(path, 1, dot - 1), SubSeq(path, dot, Len(path))>>
        ELSE <<path, "">>

(***************************************************************************)
(* Content classifier.  A file of the source tree is a record              *)
(*   [path, kind ("file" or "dir"), data (bytes), readable]                *)
(* where readable = FALSE means that opening the file raises an OSError.   *)
(***************************************************************************)
binary_extensions ==
    {".exe", ".dll", ".so", ".dylib", ".bin", ".dat", ".db", ".sqlite",
     ".msi", ".dmg", ".deb", ".rpm", ".app", ".ipa", ".pkg", ".msu",
     ".cab", ".jpg", ".jpeg", ".png", ".gif", ".bmp", ".ico", ".tiff",
     ".tif", ".webp", ".svg", ".psd", ".ai", ".eps", ".raw", ".cr2",
     ".nef", ".arw", ".dng", ".heic", ".heif", ".jfif", ".jpx", ".j2k",
     ".avif", ".jp2", ".mp3", ".wav", ".flac", ".aac", ".ogg", ".wma",
     ".m4a", ".opus", ".aiff", ".au", ".ra", ".amr", ".ac3", ".dts",
     ".pcm", ".mp4", ".avi", ".mov", ".wmv", ".flv", ".mkv", ".webm",
     ".mpg", ".mpeg", ".m4v", ".3gp", ".f4v", ".asf", ".rm", ".rmvb",
     ".vob", ".ts", ".mts", ".ttf", ".otf", ".woff", ".woff2", ".eot",
     ".pfb", ".pfm", ".afm", ".ttc", ".otc", ".fon", ".bdf", ".pcf",
     ".pdf", ".doc", ".docx", ".xls", ".xlsx", ".ppt", ".pptx", ".odt",
     ".ods", ".odp", ".pages", ".numbers", ".key", ".rtf", ".epub",
     ".mobi", ".zip", ".rar", ".7z", ".tar", ".gz", ".bz2", ".xz",
     ".lzma", ".lz4", ".zst", ".arj", ".lha", ".ace", ".iso", ".img",
     ".nrg", ".mds", ".cue", ".jar", ".war", ".ear", ".class", ".dex",
     ".apk", ".aar", ".pyc", ".pyo", ".wasm", ".o", ".obj", ".lib", ".a",
     ".pdb", ".ilk", ".exp", ".dwg", ".dxf", ".3ds", ".max", ".blend",
     ".fbx", ".dae", ".skp", ".ifc", ".step", ".stp", ".iges", ".igs",
     ".mdb", ".accdb", ".dbf", ".sqlite3", ".db3", ".s3db", ".sl3",
     ".unity3d", ".unitypackage", ".asset", ".prefab", ".mat", ".mesh",
     ".swf", ".fla", ".sketch", ".fig", ".xd", ".indd", ".p12", ".pfx",
     ".jks", ".keystore", ".cer", ".crt", ".p7b"}

text_extensions ==
    {".txt", ".py", ".js", ".html", ".css", ".json", ".xml", ".yaml",
     ".yml", ".md", ".rst", ".csv", ".sql", ".sh", ".bat", ".ps1",
     ".java", ".c", ".cpp", ".h", ".hpp", ".cs", ".php", ".rb", ".go",
     ".rs", ".swift", ".kt", ".scala", ".clj", ".hs", ".ml", ".fs", ".vb",
     ".pl", ".r", ".m", ".mm", ".tsx", ".jsx", ".vue", ".svelte", ".ts",
     ".coffee", ".sass", ".scss", ".less", ".styl", ".ini", ".cfg",
     ".conf", ".log", ".properties", ".gitignore", ".dockerignore",
     ".editorconfig"}

windows_binary_extensions ==
    {".exe", ".dll", ".msi", ".cab", ".sys", ".drv", ".ocx", ".cpl",
     ".scr", ".com", ".lnk", ".pif", ".scf", ".ttf", ".otf", ".woff",
     ".woff2", ".eot", ".pfb", ".pfm", ".afm", ".jpg", ".jpeg", ".png",
     ".gif", ".bmp", ".ico", ".tiff", ".tif", ".webp", ".svg", ".psd",
     ".ai", ".eps", ".raw", ".cr2", ".nef", ".arw", ".dng", ".mp3",
     ".wav", ".flac", ".aac", ".ogg", ".wma", ".m4a", ".opus", ".mp4",
     ".avi", ".mov", ".wmv", ".flv", ".mkv", ".webm", ".mpg", ".mpeg",
     ".pdf", ".doc", ".docx", ".xls", ".xlsx", ".ppt", ".pptx", ".odt",
     ".zip", ".rar", ".7z", ".tar", ".gz", ".bz2", ".xz", ".lzma", ".jar",
     ".war", ".class", ".dex", ".apk", ".pyc", ".pyo", ".sqlite", ".db",
     ".mdb", ".accdb", ".dbf"}

windows_text_extensions ==
    {".txt", ".log", ".ini", ".cfg", ".conf", ".xml", ".json", ".csv",
     ".html", ".htm", ".css", ".js", ".ts", ".py", ".java", ".c", ".cpp",
     ".h", ".hpp", ".cs", ".php", ".rb", ".go", ".rs", ".swift", ".kt",
     ".md", ".rst", ".yaml", ".yml", ".sql", ".sh", ".bat", ".cmd",
     ".ps1"}

Count(bytes, P(_)) == Cardinality({i \in 1..Len(bytes) : P(bytes[i])})

IsPrintableByte(b) == (b >= 32 /\ b <= 126) \/ b \in {9, 10, 13}

IsControlByte(b) == b < 32 /\ b \notin {9, 10, 13}

IsNul(b) == b = 0

Prefix(seq, n) == SubSeq(seq, 1, IF Len(seq) < n THEN Len(seq) ELSE n)

\* is_binary_file.  A file with neither a binary nor a text extension is text
\* when it decodes as UTF-8; the ladder of legacy encodings tried after a
\* failed UTF-8 decode is not modelled (no such file is in the model's
\* trees): the byte-level test that ends the ladder stands for it.
is_binary_file(f) ==
    LET ext == splitext(lower(f.path))[2]
        chunk == Prefix(f.data, 1024)
    IN  IF ext \in binary_extensions THEN TRUE
        ELSE IF ext \in text_extensions THEN FALSE
        ELSE IF ~f.readable THEN FALSE
        ELSE IF utf8_valid(f.data) THEN FALSE
        ELSE IF Len(chunk) = 0 THEN FALSE
        ELSE IF Count(chunk, IsNul) > 0 THEN TRUE
        ELSE IF 10 * Count(chunk, IsPrintableByte) < 7 * Len(chunk) THEN TRUE
        ELSE IF 10 * Count(chunk, IsControlByte) > Len(chunk) THEN TRUE
        ELSE FALSE

is_binary_file_windows_optimized(f) ==
    LET ext == splitext(lower(f.path))[2]
        chunk == Prefix(f.data, 256)
    IN  IF ext \in windows_binary_extensions THEN TRUE
        ELSE IF ext \in windows_text_extensions THEN FALSE
        ELSE IF ~f.readable THEN FALSE
        ELSE IF Len(chunk) = 0 THEN FALSE
        ELSE IF Count(chunk, IsNul) > 0 THEN TRUE
        ELSE IF 100 * Count(chunk, IsPrintableByte) < 75 * Len(chunk) THEN TRUE
        ELSE FALSE

binary_check_func(f, plat) ==
    IF plat = "Windows" THEN is_binary_file_windows_optimized(f) ELSE is_binary_file(f)

(***************************************************************************)
(* Stream assembler: the records of gather_files_to_txt and                *)
(* gather_files_to_txt_compressed.                                         *)
(***************************************************************************)
\* str(e) of the OSError raised by open() on a file that cannot be read; the
\* source folder is T
error_text(f) == "[Errno 13] Permission denied: 'T/" \o f.path \o "'"

\* the text read from a text file: UTF-8, else the fallback encodings (within
\* the model's characters cp1252 and latin1 decode alike, and utf-16 is not
\* reached)
read_text(f) ==
    IF utf8_valid(f.data) THEN universal_newlines(utf8_decode(f.data))
    ELSE universal_newlines(latin1_decode(f.data))

\* what one pass of the writing loop appends for the entry f
encode_entry(f, plat) ==
    LET marker == "\n@" \o f.path \o "\n"
        failed == marker \o "\n!" \o f.path \o "\n" \o error_text(f) \o "\n"
    IN  IF f.kind = "dir" THEN marker \o "[EMPTY_DIRECTORY]\n" \o "\n"
        ELSE IF binary_check_func(f, plat)
             THEN IF ~f.readable THEN failed
                  ELSE marker \o "B\n" \o b64encode(f.data) \o "\n" \o "\n"
        ELSE IF ~f.readable THEN failed
        ELSE marker \o read_text(f) \o "\n"

\* the stream written for the entries of files_to_process, in their order
assemble(files, plat) == concat([k \in 1..Len(files) |-> encode_entry(files[k], plat)])

\* processed_count after the first k passes of the writing loop: a pass that
\* raises (a file that cannot be read) leaves it as it was
processed_count_after(files, k) ==
    Cardinality({j \in 1..k : files[j].kind = "dir" \/ files[j].readable})

\* the calls show_progress_callback(processed_count, total_files) of the
\* writing loop, one at the end of each pass, in order
show_progress_calls(files) ==
    [k \in 1..Len(files) |-> <<processed_count_after(files, k), Len(files)>>]


(***************************************************************************)
(* Compression dispatcher.                                                 *)
(*                                                                         *)
(* The three library codecs are modelled as stored blocks: the codec's     *)
(* magic bytes, the data, and a trailer holding the data's length and an   *)
(* end mark.  Decompression checks the magic bytes and the trailer and     *)
(* fails on anything else (a truncated stream, another codec's stream).    *)
(* faults is the set of library codecs whose compress call raises.         *)
(***************************************************************************)
Codecs == {"lzma", "bz2", "zlib"}

Magic(codec) ==
    IF codec = "lzma" THEN <<253, 55, 122, 88, 90, 0>>
    ELSE IF codec = "bz2" THEN <<66, 90, 104>>
    ELSE <<120, 218>>

Trailer(codec, data) ==
    IF codec = "lzma" THEN <<Len(data) % 256, 89, 90>>
    ELSE IF codec = "bz2" THEN <<Len(data) % 256, 23, 114>>
    ELSE <<Len(data) % 256, 3>>

\* lzma.compress, bz2.compress, zlib.compress
lib_compress(codec, data) == Magic(codec) \o data \o Trailer(codec, data)

\* lzma.decompress, bz2.decompress, zlib.decompress: [ok, data]; ok = FALSE is
\* the library's exception
lib_decompress(codec, blob) ==
    LET m == Len(Magic(codec))
        t == Len(Trailer(codec, <<>>))
        data == SubSeq(blob, m + 1, Len(blob) - t)
    IN  IF /\ Len(blob) >= m + t
           /\ SubSeq(blob, 1, m) = Magic(codec)
           /\ SubSeq(blob, Len(blob) - t + 1, Len(blob)) = Trailer(codec, data)
        THEN [ok |-> TRUE, data |-> data]
        ELSE [ok |-> FALSE, data |-> <<>>]

\* preprocess_for_compression: runs of blank lines become one empty line and
\* trailing whitespace is removed from every line
preprocess_for_compression(text) ==
    LET lines == split(text, "\n")
        blank(i) == strip(lines[i]) = ""
        kept == {i \in 1..Len(lines) : ~(blank(i) /\ i > 1 /\ blank(i - 1))}
        nth(k) == CHOOSE i \in kept : Cardinality({j \in kept : j <= i}) = k
        processed_lines == [k \in 1..Cardinality(kept) |->
                               IF blank(nth(k)) THEN "" ELSE rstrip(lines[nth(k)])]
    IN  join("\n", processed_lines)

\* the sections of reorganize_content_for_compression, in order of appearance:
\* a section starts at a line beginning with '@' and takes the lines up to
\* the next line beginning with '@' or '!'; other lines are passed over
RECURSIVE collect_sections(_, _, _)
collect_sections(lines, i, sections) ==
    IF i > Len(lines) THEN sections
    ELSE IF startswith(lines[i], "@")
         THEN LET stops == {j \in (i + 1)..Len(lines) :
                               startswith(lines[j], "@") \/ startswith(lines[j], "!")}
                  next == IF stops = {} THEN Len(lines) + 1
                          ELSE CHOOSE j \in stops : \A k \in stops : j <= k
                  sec == [current_file_path |-> SubSeq(lines[i], 2, Len(lines[i])),
                          current_section |-> SubSeq(lines, i + 1, next - 1)]
              IN  collect_sections(lines, next, Append(sections, sec))
         ELSE collect_sections(lines, i + 1, sections)

section_content(sec) == join("\n", sec.current_section)

full_section(sec) == "@" \o sec.current_file_path \o "\n" \o section_content(sec) \o "\n"

IsBinarySection(sec) == startswith(section_content(sec), "B\n")

IsDirectorySection(sec) == ~IsBinarySection(sec) /\ contains(section_content(sec), "[EMPTY_DIRECTORY]")

IsTextSection(sec) == ~IsBinarySection(sec) /\ ~IsDirectorySection(sec)

Select(seq, P(_)) ==
    LET kept == {i \in 1..Len(seq) : P(seq[i])}
        nth(k) == CHOOSE i \in kept : Cardinality({j \in kept : j <= i}) = k
    IN  [k \in 1..Cardinality(kept) |-> seq[nth(k)]]

\* reorganize_content_for_compression: a section is kept when it has at least
\* one line and a non-empty path; directories, then text files, then binary
\* files
reorganize_content_for_compression(text) ==
    LET NonEmpty(sec) == Len(sec.current_section) > 0 /\ sec.current_file_path # ""
        sections == Select(collect_sections(split(text, "\n"), 1, <<>>), NonEmpty)
        directory_sections == Select(sections, IsDirectorySection)
        text_sections == Select(sections, IsTextSection)
        binary_sections == Select(sections, IsBinarySection)
        ordered == directory_sections \o text_sections \o binary_sections
    IN  concat([k \in 1..Len(ordered) |-> full_section(ordered[k])])

\* the dictionary of compress_with_dictionary
dictionary ==
    utf8_encode("@\nB\n[EMPTY_DIRECTORY]def class import from functionvar const "
                \o "<html><head><body></html></head></body><?xmlencoding=utf-8<!DOCTYPE"
                \o "{}[]();,:\"")

\* compress_with_dictionary(data, 'zlib'): the first compress call returns the
\* stream's header, which is dropped; the stream that is kept holds the
\* dictionary and the data
compress_with_dictionary(data) ==
    LET whole == lib_compress("zlib", dictionary \o data)
    IN  SubSeq(whole, Len(Magic("zlib")) + 1, Len(whole))

size_threshold(plat) == IF plat = "Windows" THEN 4096 ELSE 2048

\* the candidates of a multi-codec race: <<method, encoded>> for every codec
\* that did not raise, in the order of the algorithms list
candidates(names, blobs, faults) ==
    LET ok == {k \in 1..Len(names) : names[k][2] \notin faults}
        nth(j) == CHOOSE k \in ok : Cardinality({m \in ok : m <= k}) = j
    IN  [j \in 1..Cardinality(ok) |-> <<names[nth(j)][1], b85encode(blobs[names[nth(j)][1]])>>]

\* min(results, key=lambda x: x[2]): the first result of the smallest length
smallest(results) ==
    results[CHOOSE k \in 1..Len(results) :
                /\ \A m \in 1..Len(results) : Len(results[k][2]) <= Len(results[m][2])
                /\ \A m \in 1..(k - 1) : Len(results[m][2]) > Len(results[k][2])]

\* the branch of both compressors for a text below the size threshold: the
\* platform's one codec, and the text itself when that codec raises
single_codec(text, original_bytes, plat, faults) ==
    IF plat = "Windows"
    THEN IF "zlib" \in faults THEN text
         ELSE "ZLIB:" \o b85encode(lib_compress("zlib", original_bytes))
    ELSE IF "lzma" \in faults THEN text
         ELSE b85encode(lib_compress("lzma", original_bytes))

method_tagged(best) == best[1] \o ":" \o best[2]

\* the algorithms list of compress_text and the stream of each method
standard_algorithms(plat) ==
    IF plat = "Windows"
    THEN << <<"ZLIB", "zlib">>, <<"LZMA", "lzma">>, <<"BZ2", "bz2">> >>
    ELSE << <<"LZMA", "lzma">>, <<"BZ2", "bz2">>, <<"ZLIB", "zlib">> >>

standard_blobs(reorganized_bytes) ==
    [m \in {"LZMA", "BZ2", "ZLIB"} |->
        lib_compress(IF m = "LZMA" THEN "lzma" ELSE IF m = "BZ2" THEN "bz2" ELSE "zlib",
                     reorganized_bytes)]

standard_choice(text, results) ==
    IF Len(results) = 0 THEN "RAW:" \o text ELSE method_tagged(smallest(results))

compress_bytes(text, original_bytes, plat, faults) ==
    IF Len(original_bytes) < size_threshold(plat)
    THEN single_codec(text, original_bytes, plat, faults)
    ELSE standard_choice(text,
             candidates(standard_algorithms(plat),
                        standard_blobs(utf8_encode(reorganize_content_for_compression(text))),
                        faults))

\* compress_text
compress_text(text, plat, faults) == compress_bytes(text, utf8_encode(text), plat, faults)

\* the algorithms list of compress_text_advanced and the stream of each method
advanced_algorithms(plat) ==
    IF plat = "Windows"
    THEN << <<"ZLIB_ULTRA", "zlib">>, <<"LZMA_EXTREME", "lzma">>, <<"BZ2_MAX", "bz2">> >>
    ELSE << <<"LZMA_EXTREME", "lzma">>, <<"ZLIB_ULTRA", "zlib">>, <<"BZ2_MAX", "bz2">> >>

advanced_blobs(reorganized_bytes) ==
    [m \in {"LZMA_EXTREME", "ZLIB_ULTRA", "BZ2_MAX"} |->
        IF m = "LZMA_EXTREME" THEN lib_compress("lzma", reorganized_bytes)
        ELSE IF m = "ZLIB_ULTRA" THEN compress_with_dictionary(reorganized_bytes)
        ELSE lib_compress("bz2", reorganized_bytes)]

\* the 95% rule: the best result of the race is kept only when it is at most
\* 95% of the result of compress_text
better_of(best, standard_result) ==
    IF 100 * Len(best[2]) > 95 * Len(standard_result) THEN standard_result ELSE method_tagged(best)

advanced_choice(results, standard_result) ==
    IF Len(results) = 0 THEN standard_result ELSE better_of(smallest(results), standard_result)

compress_processed(text, processed_text, original_bytes, plat, faults) ==
    IF Len(original_bytes) < size_threshold(plat)
    THEN single_codec(processed_text, original_bytes, plat, faults)
    ELSE advanced_choice(
             candidates(advanced_algorithms(plat),
                        advanced_blobs(utf8_encode(
                            reorganize_content_for_compression(processed_text))),
                        faults),
             compress_text(text, plat, faults))

compress_preprocessed(text, processed_text, plat, faults) ==
    compress_processed(text, processed_text, utf8_encode(processed_text), plat, faults)

\* compress_text_advanced
compress_text_advanced(text, plat, faults) ==
    compress_preprocessed(text, preprocess_for_compression(text), plat, faults)

\* the decompression step of restore_files_from_compressed_txt:
\* [outcome, text]; outcome is "ok", "failed" (an exception, reported) or
\* "unsupported" (the method is not recognised)
decompress_container(compressed_content) ==
    LET tagged == contains(compressed_content, ":")
        method == IF tagged THEN split1(compressed_content, ":")[1] ELSE "LZMA"
        encoded_data == IF tagged THEN split1(compressed_content, ":")[2] ELSE compressed_content
        compressed == b85decode(encoded_data)
        codec == IF method \in {"LZMA", "LZMA_EXTREME"} THEN "lzma"
                 ELSE IF method \in {"BZ2", "BZ2_MAX"} THEN "bz2"
                 ELSE "zlib"
        plain == lib_decompress(codec, compressed.data)
    IN  IF ~compressed.ok THEN [outcome |-> "failed", text |-> ""]
        ELSE IF method = "RAW" THEN [outcome |-> "ok", text |-> encoded_data]
        ELSE IF method \notin {"LZMA", "BZ2", "ZLIB", "LZMA_EXTREME", "ZLIB_ULTRA", "BZ2_MAX"}
             THEN [outcome |-> "unsupported", text |-> ""]
        ELSE IF ~plain.ok \/ ~utf8_valid(plain.data) THEN [outcome |-> "failed", text |-> ""]
        ELSE [outcome |-> "ok", text |-> utf8_decode(plain.data)]


(***************************************************************************)
(* Path sanitation of the restorer.                                        *)
(***************************************************************************)
upper(s) ==
    concat([i \in 1..Len(s) |-> IF Ch(s, i) \in DOMAIN UpperOf THEN UpperOf[Ch(s, i)] ELSE Ch(s, i)])

os_sep(plat) == IF plat = "Windows" THEN "\\" ELSE "/"

\* get_platform_info
reserved_names(plat) ==
    IF plat = "Windows"
    THEN {"CON", "PRN", "AUX", "NUL", "COM1", "COM2", "COM3", "COM4", "COM5", "COM6",
          "COM7", "COM8", "COM9", "LPT1", "LPT2", "LPT3", "LPT4", "LPT5", "LPT6",
          "LPT7", "LPT8", "LPT9"}
    ELSE {}

\* the NUL character of the non-Windows list is outside the model's text
invalid_chars == {"<", ">", ":", "\"", "|", "?", "*"}

max_filename_length == 255

max_path_length(plat) == IF plat = "Windows" THEN 260 ELSE 4096

safe_filename_length == 200

\* re.sub(r'_+', '_', ...) after the replacement of the invalid characters
replace_invalid(filename) ==
    concat([i \in 1..Len(filename) |->
        IF Ch(filename, i) \in invalid_chars THEN "_" ELSE Ch(filename, i)])

collapse_underscores(replaced) ==
    concat([i \in 1..Len(replaced) |->
        IF Ch(replaced, i) = "_" /\ i > 1 /\ Ch(replaced, i - 1) = "_"
        THEN "" ELSE Ch(replaced, i)])

\* the reserved-name test, on the name without its extension
avoid_reserved(stripped, plat) ==
    IF upper(splitext(stripped)[1]) \in reserved_names(plat) THEN "_" \o stripped ELSE stripped

default_name(renamed) == IF renamed = "" THEN "unnamed_file" ELSE renamed

\* min(max_filename_length, 200)
max_length == IF max_filename_length < safe_filename_length
              THEN max_filename_length ELSE safe_filename_length

\* the cut to max_length that keeps the extension
truncate_name(named, name_ext) ==
    IF Len(named) <= max_length THEN named
    ELSE IF max_length - Len(name_ext[2]) > 0
    THEN SubSeq(name_ext[1], 1, max_length - Len(name_ext[2])) \o name_ext[2]
    ELSE SubSeq(name_ext[1], 1, max_length)

keep_extension(named) == truncate_name(named, splitext(named))

\* sanitize_filename
sanitize_filename(filename, plat) ==
    keep_extension(default_name(avoid_reserved(
        strip_chars(collapse_underscores(replace_invalid(filename)), {" ", "."}), plat)))

NonEmptyString(x) == x # ""

NotDotSegment(x) == x # "" /\ x # "."

\* the separators of a stored path turned into the platform's
normalize_path_for_restore(stored_path, plat) ==
    concat([i \in 1..Len(stored_path) |->
        IF Ch(stored_path, i) = "/" THEN os_sep(plat) ELSE Ch(stored_path, i)])

\* the root of an absolute path: POSIX keeps exactly two leading slashes as
\* the root '//'; drives and UNC roots of Windows paths are not modelled
path_root(normalized, plat) ==
    IF ~startswith(normalized, os_sep(plat)) THEN <<>>
    ELSE IF plat # "Windows" /\ startswith(normalized, "//") /\ ~startswith(normalized, "///")
    THEN <<"//">>
    ELSE <<os_sep(plat)>>

parts_of(normalized, plat) ==
    path_root(normalized, plat) \o Select(split(normalized, os_sep(plat)), NotDotSegment)

\* Path(normalize_path_for_restore(stored_path)).parts: the root when the path
\* is absolute, then the segments without the empty and '.' ones
path_parts(stored_path, plat) == parts_of(normalize_path_for_restore(stored_path, plat), plat)

IsName(part) == part \notin {"", ".", "..", "/"}

sanitize_parts(path_parts_kept, plat) ==
    [k \in 1..Len(path_parts_kept) |-> sanitize_filename(path_parts_kept[k], plat)]

\* the cut of a path longer than max_path_length
truncate_path(result_path, name_ext, limit) ==
    IF Len(result_path) <= limit THEN result_path
    ELSE IF contains(result_path, ".")
    THEN SubSeq(name_ext[1], 1, limit - Len(name_ext[2]) - 10) \o name_ext[2]
    ELSE SubSeq(result_path, 1, limit - 10)

limit_path(result_path, plat) ==
    truncate_path(result_path, splitext(result_path), max_path_length(plat))

\* sanitize_file_path
sanitize_file_path(file_path, plat) ==
    limit_path(join(os_sep(plat), sanitize_parts(Select(path_parts(file_path, plat), IsName), plat)),
               plat)

\* str(Path(output_folder) / sanitized_file_path), as a key of the destination
\* file system: relative to the output folder ("" is the output folder
\* itself), with '/' between the segments; a key that starts with '/' is an
\* absolute path, outside the output folder
full_path(sanitized_file_path, plat) ==
    LET segments == Select(split(sanitized_file_path, os_sep(plat)), NonEmptyString)
    IN  IF startswith(sanitized_file_path, os_sep(plat))
        THEN "/" \o join("/", segments)
        ELSE join("/", segments)


(***************************************************************************)
(* Decoder: the scan that splits the stream into records.  parts is the    *)
(* flat list of the code, three items per record: the type, the path and   *)
(* the content block.  The type, a constant Chinese word in the code, is   *)
(* written block_type here.                                                *)
(***************************************************************************)
block_type == "FILE"

css_prefixes == {"keyframes", "media", "import", "charset", "font-face"}

decorator_prefixes == {"app.route", "staticmethod", "classmethod", "property"}

\* the test of the outer loop: the line starts a record
is_file_marker(line) ==
    /\ startswith(line, "@")
    /\ Len(line) > 1
    /\ ~startswith_any(strip(SubSeq(line, 2, Len(line))), css_prefixes)
    /\ ~startswith_any(strip(SubSeq(line, 2, Len(line))), decorator_prefixes)
    /\ ~contains(line, "def ")
    /\ ~contains(line, "class ")

\* the test of the inner loop: the line ends the content being collected
is_stop_line(next_line) ==
    \/ /\ startswith(next_line, "@")
       /\ Len(next_line) > 1
       /\ ~startswith_any(strip(SubSeq(next_line, 2, Len(next_line))), css_prefixes)
    \/ startswith(next_line, "!")

\* make_content_block without the removal of the last empty line
make_content_block_keeping_last_line(content_lines) ==
    IF Len(content_lines) > 0 /\ content_lines[1] = "B"
    THEN "[BINARY_FILE_BASE64]\n" \o join("\n", Tail(content_lines))
    ELSE IF Len(content_lines) > 0 /\ content_lines[1] = "[EMPTY_DIRECTORY]"
    THEN "[EMPTY_DIRECTORY]"
    ELSE join("\n", content_lines)

\* the content block made of the lines collected for a record
make_content_block(content_lines) ==
    IF Len(content_lines) > 0 /\ content_lines[1] = "B"
    THEN "[BINARY_FILE_BASE64]\n" \o join("\n", Tail(content_lines))
    ELSE IF Len(content_lines) > 0 /\ content_lines[1] = "[EMPTY_DIRECTORY]"
    THEN "[EMPTY_DIRECTORY]"
    ELSE IF Len(content_lines) > 0 /\ content_lines[Len(content_lines)] = ""
    THEN join("\n", SubSeq(content_lines, 1, Len(content_lines) - 1))
    ELSE join("\n", content_lines)

\* a scan whose pass over a line of content leaves the index where it is
scan_next_stalling(lines, i) ==
    IF is_file_marker(lines[i]) \/ startswith(lines[i], "!") THEN i + 1 ELSE i

\* the index i after the pass of the scanning loop that starts at line i: a
\* marker takes its line and the lines up to the next stop line, an error
\* marker takes two lines, any other line one
scan_next(lines, i) ==
    IF is_file_marker(lines[i])
    THEN LET stops == {j \in (i + 1)..Len(lines) : is_stop_line(lines[j])}
         IN  IF stops = {} THEN Len(lines) + 1
             ELSE CHOOSE j \in stops : \A k \in stops : j <= k
    ELSE IF startswith(lines[i], "!") THEN i + 2
    ELSE i + 1

\* the scanning loop from line i on; current_item is <<>> for None
RECURSIVE scan_lines(_, _, _, _)
scan_lines(lines, i, parts_so_far, current_item) ==
    IF i > Len(lines) THEN parts_so_far \o current_item
    ELSE IF is_file_marker(lines[i])
    THEN LET next == scan_next(lines, i)
             file_path == SubSeq(lines[i], 2, Len(lines[i]))
             content_block == make_content_block(SubSeq(lines, i + 1, next - 1))
         IN  scan_lines(lines, next, parts_so_far \o current_item,
                        <<block_type, file_path, content_block>>)
    ELSE IF startswith(lines[i], "!")
    THEN LET file_path == SubSeq(lines[i], 2, Len(lines[i]))
             error_content == IF i + 1 <= Len(lines) THEN lines[i + 1] ELSE ""
         IN  scan_lines(lines, scan_next(lines, i), parts_so_far \o current_item,
                        <<block_type, file_path, "ERROR: " \o error_content>>)
    ELSE scan_lines(lines, scan_next(lines, i), parts_so_far,
                    IF current_item # <<>>
                    THEN [current_item EXCEPT ![3] = @ \o "\n" \o lines[i]]
                    ELSE current_item)

\* the parts list of restore_files_from_txt
parse_parts(content) == scan_lines(split(content, "\n"), 1, <<>>, <<>>)

\* the parts list of restore_files_from_compressed_txt: the same scan
parse_parts_compressed(decompressed_content) ==
    scan_lines(split(decompressed_content, "\n"), 1, <<>>, <<>>)


(***************************************************************************)
(* The file system the restorer writes to: a function from path keys to    *)
(* nodes [kind, data].  A key is relative to the output folder ("" is the  *)
(* output folder itself) with '/' between its segments; "/" and ".." (the  *)
(* root and the directory that holds the output folder) always exist.      *)
(***************************************************************************)
EmptyFS == [p \in {} |-> [kind |-> "dir", data |-> <<>>]]

Implicit == {"/", ".."}

Dir == [kind |-> "dir", data |-> <<>>]

File(data) == [kind |-> "file", data |-> data]

\* os.path.dirname / Path.parent of a key
parent_key(p) ==
    IF p = "" THEN ".."
    ELSE IF LastIndex(p, "/") = 0 THEN IF p = ".." THEN ".." ELSE ""
    ELSE IF LastIndex(p, "/") = 1 THEN "/"
    ELSE SubSeq(p, 1, LastIndex(p, "/") - 1)

\* os.path.basename of a key; the output folder is called "output"
basename_key(p) == IF p = "" THEN "output" ELSE SubSeq(p, LastIndex(p, "/") + 1, Len(p))

\* os.path.join(d, name)
child_key(d, name) ==
    IF d = "" THEN name ELSE IF d = "/" THEN "/" \o name ELSE d \o "/" \o name

exists(fs, p) == p \in Implicit \/ p \in DOMAIN fs

isdir(fs, p) == p \in Implicit \/ (p \in DOMAIN fs /\ fs[p].kind = "dir")

isfile(fs, p) == p \in DOMAIN fs /\ fs[p].kind = "file"

\* the key and the keys above it that do not always exist
RECURSIVE ancestors(_)
ancestors(p) == IF p \in Implicit THEN {} ELSE {p} \cup ancestors(parent_key(p))

\* a makedirs that creates nothing
makedirs_creating_nothing(fs, p) == [ok |-> TRUE, fs |-> fs]

\* os.makedirs(p, exist_ok=True) and Path.mkdir(parents=True, exist_ok=True):
\* [ok, fs]; ok = FALSE is the OSError raised when p or a key above it is a file
makedirs(fs, p) ==
    IF \E a \in ancestors(p) : isfile(fs, a)
    THEN [ok |-> FALSE, fs |-> fs]
    ELSE [ok |-> TRUE,
          fs |-> [k \in DOMAIN fs \cup ancestors(p) |-> IF k \in DOMAIN fs THEN fs[k] ELSE Dir]]

\* open(p, 'w') / open(p, 'wb') followed by a write of data
write_file(fs, p, data) == [k \in DOMAIN fs \cup {p} |-> IF k = p THEN File(data) ELSE fs[k]]

Digits == "0123456789"

\* str() of a small natural number
str_int(n) ==
    IF n < 10 THEN Ch(Digits, n + 1)
    ELSE Ch(Digits, ((n \div 10) % 10) + 1) \o Ch(Digits, (n % 10) + 1)

\* datetime.datetime.now().strftime("%Y%m%d_%H%M%S") at the clock value:
\* one second per tick
strftime(clock) == "20240101_0000" \o str_int(10 + clock)

\* backup_existing_file: the file system afterwards (every exception is
\* swallowed; the backup directory made before a failed copy stays)
backup_existing_file(fs, file_path, clock) ==
    LET backup_dir == child_key(parent_key(file_path), ".snapshot_backups")
        made == makedirs(fs, backup_dir)
        named == child_key(backup_dir, basename_key(file_path) \o ".backup_" \o strftime(clock))
        backup_path == IF isdir(made.fs, named) THEN child_key(named, basename_key(file_path))
                       ELSE named
    IN  IF ~exists(fs, file_path) THEN fs
        ELSE IF ~made.ok THEN fs
        ELSE IF isdir(fs, file_path) \/ isdir(made.fs, backup_path) THEN made.fs
        ELSE write_file(made.fs, backup_path, fs[file_path].data)

\* the newline translation of a file opened for writing in text mode
text_on_disk(text, plat) ==
    IF plat = "Windows"
    THEN concat([i \in 1..Len(text) |-> IF Ch(text, i) = "\n" THEN "\r\n" ELSE Ch(text, i)])
    ELSE text

HighCharSet == CharsOf(HighChars)

is_ascii_text(s) == \A i \in 1..Len(s) : Ch(s, i) \notin HighCharSet


(***************************************************************************)
(* One pass of the restore loop.                                           *)
(***************************************************************************)
\* the entry appended to error_details; kind stands for the message's
\* leading words, which tell the except clause that caught the failure
error_message(kind, sanitized_file_path) == kind \o ": " \o sanitized_file_path

\* the binary branch once the parent directory exists and the backup is
\* taken: open(full_path, 'wb') truncates before base64.b64decode can fail
write_binary(backed, target, sanitized_file_path, base64_content, decoded) ==
    IF isdir(backed, target)
    THEN [fs |-> backed, error |-> error_message("FileSystemError", sanitized_file_path)]
    ELSE IF ~is_ascii_text(base64_content) \/ ~decoded.ok
    THEN [fs |-> write_file(backed, target, <<>>),
          error |-> error_message("Base64DecodeError", sanitized_file_path)]
    ELSE [fs |-> write_file(backed, target, decoded.data), error |-> ""]

decode_binary(backed, target, sanitized_file_path, base64_content) ==
    write_binary(backed, target, sanitized_file_path, base64_content, b64decode(base64_content))

\* the text branch: open(full_path, 'w', encoding='utf-8') and write
write_content(backed, target, sanitized_file_path, content_block, plat) ==
    IF isdir(backed, target)
    THEN [fs |-> backed, error |-> error_message("FileSystemError", sanitized_file_path)]
    ELSE [fs |-> write_file(backed, target, utf8_encode(text_on_disk(content_block, plat))),
          error |-> ""]

\* a file record whose parent directory exists in parent_fs
restore_file(parent_fs, target, sanitized_file_path, content_block, stripped, plat, clock, with_backup) ==
    IF startswith(stripped, "[BINARY_FILE_BASE64]")
    THEN IF ~contains(content_block, "\n")
         THEN [fs |-> parent_fs, error |-> error_message("UnknownError", sanitized_file_path)]
         ELSE decode_binary(IF with_backup THEN backup_existing_file(parent_fs, target, clock)
                            ELSE parent_fs,
                            target, sanitized_file_path, split1(content_block, "\n")[2])
    ELSE write_content(IF with_backup THEN backup_existing_file(parent_fs, target, clock)
                       ELSE parent_fs,
                       target, sanitized_file_path, content_block, plat)

\* the try block of one record, given the outcome of the two mkdir calls it
\* can make: made for the record's own path, parent_made for its parent
restore_at(fs, target, sanitized_file_path, content_block, stripped, made, parent_made, plat, clock, with_backup) ==
    IF stripped = "[EMPTY_DIRECTORY]"
    THEN IF made.ok THEN [fs |-> made.fs, error |-> ""]
         ELSE [fs |-> fs, error |-> error_message("FileSystemError", sanitized_file_path)]
    ELSE IF ~parent_made.ok
    THEN [fs |-> fs, error |-> error_message("FileSystemError", sanitized_file_path)]
    ELSE restore_file(parent_made.fs, target, sanitized_file_path, content_block, stripped,
                      plat, clock, with_backup)

restore_to(fs, target, sanitized_file_path, content_block, plat, clock, with_backup) ==
    restore_at(fs, target, sanitized_file_path, content_block, strip(content_block),
               makedirs(fs, target), makedirs(fs, parent_key(target)), plat, clock, with_backup)

restore_sanitized(fs, sanitized_file_path, content_block, plat, clock, with_backup) ==
    restore_to(fs, full_path(sanitized_file_path, plat), sanitized_file_path, content_block,
               plat, clock, with_backup)

\* [fs, error]: the file system after the try block for one record and the
\* error message, "" when the record was restored.  with_backup tells
\* restore_files_from_txt, which calls backup_existing_file, from
\* restore_files_from_compressed_txt, which does not.
restore_record(fs, file_path, content_block, plat, clock, with_backup) ==
    restore_sanitized(fs, sanitize_file_path(file_path, plat), content_block, plat, clock,
                      with_backup)

\* the bookkeeping of a pass without its error_details.append(error_msg)
tally_without_append(counts, error) ==
    IF error = ""
    THEN [counts EXCEPT !.success_count = @ + 1]
    ELSE [counts EXCEPT !.error_count = @ + 1]

\* the bookkeeping that ends a pass: success_count += 1, or error_count += 1
\* and error_details.append(error_msg)
tally(counts, error) ==
    IF error = ""
    THEN [counts EXCEPT !.success_count = @ + 1]
    ELSE [counts EXCEPT !.error_count = @ + 1, !.error_details = Append(@, error)]

\* create_restore_report: the file system afterwards
create_restore_report(fs, counts, clock, plat) ==
    LET report_path == "restore_report.txt"
        numbered == [k \in 1..Len(counts.error_details) |->
                        str_int(k) \o ". " \o counts.error_details[k] \o "\n"]
        text == "time: " \o strftime(clock) \o "\n"
                \o "success: " \o str_int(counts.success_count) \o "\n"
                \o "failed: " \o str_int(counts.error_count) \o "\n"
                \o concat(numbered)
    IN  IF isdir(fs, report_path) THEN fs
        ELSE write_file(fs, report_path, utf8_encode(text_on_disk(text, plat)))


(***************************************************************************)
(* The source trees.  A tree is the list files_to_process that os.walk     *)
(* yields for it: the entries of Pool it holds, in Pool's order (files of  *)
(* the root, its empty directories, then the nested files).                *)
(***************************************************************************)
TextFile(path, text) == [path |-> path, kind |-> "file", data |-> utf8_encode(text), readable |-> TRUE]

Pool ==
    << TextFile("a.txt", "hello\n"),
       TextFile("deco.py", "x\n\n@property\ny\n"),
       TextFile("b.txt", "B\nQ\n"),
       [path |-> "img.bin", kind |-> "file", data |-> <<1, 2, 255>>, readable |-> TRUE],
       [path |-> "u.txt", kind |-> "file", data |-> <<>>, readable |-> FALSE],
       TextFile("w.txt", "a \n\n\nb\n"),
       [path |-> "d", kind |-> "dir", data |-> <<>>, readable |-> TRUE],
       TextFile("s x/n.txt", "x\n@a.txt/y\nz\n") >>

\* the entries of Pool at the indices of chosen, in order
Tree(chosen) ==
    LET nth(k) == CHOOSE i \in chosen : Cardinality({j \in chosen : j <= i}) = k
    IN  [k \in 1..Cardinality(chosen) |-> Pool[nth(k)]]

Sources == {Tree(chosen) : chosen \in {c \in SUBSET (1..Len(Pool)) : Cardinality(c) <= MaxEntries}}

Platforms == {"Linux", "Windows"}

\* any codec may raise in one call and work in the next
IntermittentFaults == SUBSET Codecs

\* the codecs whose import fails in the process that writes a snapshot
CodecFaults == {{}, Codecs}

(***************************************************************************)
(* The input path.  source is the list of the entries os.walk finds under  *)
(* a folder, or, for a path that is one regular file, a list of one entry  *)
(* of kind "rootfile": the file (path is its base name) and nearby, the    *)
(* entries that exist at the paths a line of its text may name.            *)
(***************************************************************************)
is_single_file(src) == Len(src) = 1 /\ src[1].kind = "rootfile"

\* the root file as the entry (base name, input_path)
as_entry(root) ==
    [path |-> root.path, kind |-> "file", data |-> root.data, readable |-> root.readable]

\* [line.strip() for line in f if line.strip()]
stripped_lines(text) ==
    LET lines == split(text, "\n")
        NonEmptyLine(line) == strip(line) # ""
        kept == Select(lines, NonEmptyLine)
    IN  [k \in 1..Len(kept) |-> strip(kept[k])]

\* os.path.exists(path) for a path named by a line of the root file
nearby_exists(root, path) == \E j \in 1..Len(root.nearby) : root.nearby[j].path = path

nearby_entry(root, path) ==
    root.nearby[CHOOSE j \in 1..Len(root.nearby) : root.nearby[j].path = path]

\* the test for a file list: the file reads as UTF-8 text and its first
\* non-empty line is a path that exists
is_file_list(root) ==
    /\ root.readable
    /\ utf8_valid(root.data)
    /\ Len(stripped_lines(read_text(root))) > 0
    /\ nearby_exists(root, stripped_lines(read_text(root))[1])

\* os.path.basename
basename(path) ==
    LET seps == {i \in 1..Len(path) : Ch(path, i) = "/"}
    IN  IF seps = {} THEN path
        ELSE SubSeq(path, (CHOOSE i \in seps : \A j \in seps : i >= j) + 1, Len(path))

\* the entries of a file list: the lines that name an existing path, each
\* under its base name
listed_entries(root) ==
    LET file_list == stripped_lines(read_text(root))
        Exists(path) == nearby_exists(root, path)
        found == Select(file_list, Exists)
    IN  [k \in 1..Len(found) |->
            [path |-> basename(found[k]),
             kind |-> nearby_entry(root, found[k]).kind,
             data |-> nearby_entry(root, found[k]).data,
             readable |-> nearby_entry(root, found[k]).readable]]

\* files_to_process of gather_files_to_txt
files_to_process(src) ==
    IF is_single_file(src)
    THEN IF is_file_list(src[1]) THEN listed_entries(src[1]) ELSE <<as_entry(src[1])>>
    ELSE src

\* files_to_process of gather_files_to_txt_compressed
files_to_process_compressed(src) ==
    IF is_single_file(src) THEN <<as_entry(src[1])>> ELSE src

(***************************************************************************)
(* Snapshot files.                                                         *)
(***************************************************************************)
\* the source folder is called T
combined_name == "combined_files_T.txt"

compressed_name == "compressed_files_T.txt"

\* Path.suffix and Path.stem of a file name: the suffix starts at the last
\* dot, unless that dot is the first or the last character of the name
path_suffix(name) ==
    LET i == LastIndex(name, ".")
    IN  IF 1 < i /\ i < Len(name) THEN SubSeq(name, i, Len(name)) ELSE ""

path_stem(name) == SubSeq(name, 1, Len(name) - Len(path_suffix(name)))

\* new_name of get_unique_filepath for the counter
new_name(filepath, counter) ==
    path_stem(filepath) \o "_" \o str_int(counter) \o path_suffix(filepath)

\* a get_unique_filepath that never looks past the counter 1
get_unique_filepath_trying_once(existing, filepath) ==
    IF filepath \notin existing THEN filepath ELSE new_name(filepath, 1)

\* get_unique_filepath, over the names that exist in the directory of filepath
get_unique_filepath(existing, filepath) ==
    LET free == {c \in 1..(Cardinality(existing) + 1) : new_name(filepath, c) \notin existing}
    IN  IF filepath \notin existing THEN filepath
        ELSE new_name(filepath, CHOOSE c \in free : \A other \in free : c <= other)

\* the bytes of a file written in text mode, and the text read back from them
write_text(text, plat) == utf8_encode(text_on_disk(text, plat))

read_file_text(bytes) == universal_newlines(utf8_decode(bytes))

\* f.readline().strip() on the first line
first_line_of(text) == strip(split(text, "\n")[1])

\* f.read() after the first f.readline()
rest_after_first_line(text) == IF contains(text, "\n") THEN split1(text, "\n")[2] ELSE ""


(***************************************************************************)
(* periodic_backup: the backup destination is a function from the names of *)
(* its files to their modification times, in seconds of the clock.         *)
(***************************************************************************)
NoBackups == [n \in {} |-> 0]

\* default_config["max_backups_to_keep"]
default_max_backups_to_keep == 10

seconds_per_day == 86400

\* %02d
two_digits(n) == IF n < 10 THEN "0" \o str_int(n) ELSE str_int(n)

\* datetime.now().strftime("%Y%m%d_%H%M%S"); the clock starts on 2024-01-01
\* at 00:00:00 and stays within January
timestamp(clock) ==
    LET day == clock \div seconds_per_day
        second == clock % seconds_per_day
    IN  "202401" \o two_digits(1 + day) \o "_"
            \o two_digits(second \div 3600)
            \o two_digits((second % 3600) \div 60)
            \o two_digits(second % 60)

\* backup_name_format.format(source_name, timestamp) and the '.txt' of
\* final_backup_path
backup_file_name(source_name, clock) ==
    "backup_" \o source_name \o "_" \o timestamp(clock) \o ".txt"

endswith(s, suffix) ==
    Len(s) >= Len(suffix) /\ SubSeq(s, Len(s) - Len(suffix) + 1, Len(s)) = suffix

\* str.replace(old, ""): every occurrence of old is dropped, left to right
RECURSIVE remove_all(_, _)
remove_all(s, old) ==
    IF Len(s) < Len(old) THEN s
    ELSE IF SubSeq(s, 1, Len(old)) = old THEN remove_all(SubSeq(s, Len(old) + 1, Len(s)), old)
    ELSE SubSeq(s, 1, 1) \o remove_all(SubSeq(s, 2, Len(s)), old)

\* file.replace('.txt', '').split('_')
name_parts(file) == split(remove_all(file, ".txt"), "_")

\* the file takes part in the cleanup
is_grouped(file) == endswith(file, ".txt") /\ Len(name_parts(file)) >= 3

\* '_'.join(parts[1:-1]): the key of the file's group
group_of(file) == join("_", SubSeq(name_parts(file), 2, Len(name_parts(file)) - 1))

\* backup_groups[source_name]
backup_group(backups, key) == {f \in DOMAIN backups : is_grouped(f) /\ group_of(f) = key}

\* backups[:-max_backups] of the group sorted by modification time: the files
\* with max_backups or more newer files in their group (two files of one
\* group never have the same modification time here)
to_remove(backups, max_backups) ==
    {f \in DOMAIN backups :
        /\ is_grouped(f)
        /\ Cardinality(backup_group(backups, group_of(f))) > max_backups
        /\ Cardinality({g \in backup_group(backups, group_of(f)) : backups[g] > backups[f]})
               >= max_backups}

\* the backup destination after cleanup_old_backups
cleaned(backups, max_backups) ==
    IF max_backups <= 0 THEN backups
    ELSE [f \in DOMAIN backups \ to_remove(backups, max_backups) |-> backups[f]]

(***************************************************************************)
(* The state machine.                                                      *)
(***************************************************************************)
VARIABLES
    platform,       \* platform.system() of the process
    source,         \* files_to_process of the source folder
    snapshots,      \* the snapshot files next to the source folder: name -> bytes
    dest,           \* the file system under and around the output folder
    now,            \* the clock, in seconds
    pc,             \* "idle", or "loop" inside a restorer's loop
    txt_path,       \* the snapshot file the running restore reads
    restorer,       \* "txt" (restore_files_from_txt) or "compressed"
    parts,          \* the restorer's parts list
    idx,            \* the record (1-based) the loop handles next
    success_count,
    error_count,
    error_details,
    history,        \* the restores that have ended: [txt_path, restorer, outcome]
    backup_destination,     \* the backup files of periodic_backup: name -> mtime
    max_backups_to_keep     \* config["max_backups_to_keep"] of the running process

vars == <<platform, source, snapshots, dest, now, pc, txt_path, restorer, parts, idx,
          success_count, error_count, error_details, history,
          backup_destination, max_backups_to_keep>>

total_blocks == Len(parts) \div 3

Init ==
    /\ platform \in Platforms
    /\ source \in Sources
    /\ snapshots = [n \in {} |-> <<>>]
    /\ dest = EmptyFS
    /\ now = 0
    /\ pc = "idle"
    /\ txt_path = ""
    /\ restorer = ""
    /\ parts = <<>>
    /\ idx = 1
    /\ success_count = 0
    /\ error_count = 0
    /\ error_details = <<>>
    /\ history = <<>>
    /\ backup_destination = NoBackups
    /\ max_backups_to_keep = default_max_backups_to_keep

\* gather_files_to_txt on the source folder.  The source does not change:
\* a second call rewrites the same bytes, a step that leaves the state as it is.
gather_files_to_txt ==
    /\ pc = "idle"
    /\ combined_name \notin DOMAIN snapshots
    /\ snapshots' = [n \in DOMAIN snapshots \cup {combined_name} |->
                        IF n = combined_name
                        THEN write_text("UNCOMPRESSED\n"
                                        \o assemble(files_to_process(source), platform),
                                        platform)
                        ELSE snapshots[n]]
    /\ UNCHANGED <<backup_destination, max_backups_to_keep,
                   platform, source, dest, now, pc, txt_path, restorer, parts, idx,
                   success_count, error_count, error_details, history>>

\* gather_files_to_txt_compressed on the source folder
gather_files_to_txt_compressed ==
    /\ pc = "idle"
    /\ Cardinality(DOMAIN snapshots \ {combined_name}) < MaxSnapshots
    /\ \E unavailable \in CodecFaults :
          LET output_file == get_unique_filepath(DOMAIN snapshots, compressed_name)
              full_content == assemble(files_to_process_compressed(source), platform)
              compressed_content == "COMPRESSED\n"
                                    \o compress_text_advanced(full_content, platform, unavailable)
          IN  snapshots' = [n \in DOMAIN snapshots \cup {output_file} |->
                               IF n = output_file THEN write_text(compressed_content, platform)
                               ELSE snapshots[n]]
    /\ UNCHANGED <<backup_destination, max_backups_to_keep,
                   platform, source, dest, now, pc, txt_path, restorer, parts, idx,
                   success_count, error_count, error_details, history>>

\* a restore that ends before its loop, with the message or exception named
EndRestore(path, by, outcome) ==
    /\ history' = Append(history, [txt_path |-> path, restorer |-> by, outcome |-> outcome])
    /\ pc' = "idle"

\* the parts list is complete: the checks before the loop, then its first pass
EnterLoop(path, by, new_parts) ==
    /\ dest' = makedirs(dest, "").fs
    /\ IF Len(new_parts) % 3 # 0
       THEN /\ EndRestore(path, by, "warning: corrupted")
            /\ UNCHANGED <<txt_path, restorer, parts, idx, success_count, error_count, error_details>>
       ELSE IF Len(new_parts) \div 3 = 0
       THEN /\ EndRestore(path, by, "warning: no blocks")
            /\ UNCHANGED <<txt_path, restorer, parts, idx, success_count, error_count, error_details>>
       ELSE /\ pc' = "loop"
            /\ txt_path' = path
            /\ restorer' = by
            /\ parts' = new_parts
            /\ idx' = 1
            /\ success_count' = 0
            /\ error_count' = 0
            /\ error_details' = <<>>
            /\ UNCHANGED history


\* a restore that ends before the output folder is made
Refuse(path, by, outcome) ==
    /\ EndRestore(path, by, outcome)
    /\ UNCHANGED <<dest, txt_path, restorer, parts, idx, success_count, error_count, error_details>>

\* restore_files_from_txt(path, output folder) up to its loop, for a file whose
\* first line is not COMPRESSED.  first line of the old formats: not modelled,
\* no snapshot of the model starts with them.
restore_files_from_txt ==
    /\ pc = "idle"
    /\ Len(history) < MaxRestores
    /\ \E path \in DOMAIN snapshots :
          LET raw == snapshots[path]
              text == read_file_text(raw)
          IN  IF ~utf8_valid(raw) THEN Refuse(path, "txt", "raised UnicodeDecodeError")
              ELSE /\ first_line_of(text) # "COMPRESSED"
                   /\ IF first_line_of(text) # "UNCOMPRESSED"
                      THEN Refuse(path, "txt", "error: unrecognised format")
                      ELSE IF Len(split1(text, "\n")) < 2
                      THEN Refuse(path, "txt", "raised IndexError")
                      ELSE EnterLoop(path, "txt", parse_parts(split1(text, "\n")[2]))
    /\ UNCHANGED <<backup_destination, max_backups_to_keep,
                   platform, source, snapshots, now>>

\* Decompressed with the unsupported method falling through to the restore
\* of an empty text instead of returning
Decompressed_falling_through(path, decompressed) ==
    IF decompressed.outcome = "failed"
    THEN Refuse(path, "compressed", "error: decompression failed")
    ELSE EnterLoop(path, "compressed", parse_parts_compressed(decompressed.text))

\* the steps of restore_files_from_compressed_txt after its decompression step
Decompressed(path, decompressed) ==
    IF decompressed.outcome = "failed"
    THEN Refuse(path, "compressed", "error: decompression failed")
    ELSE IF decompressed.outcome = "unsupported"
    THEN Refuse(path, "compressed", "error: unsupported method")
    ELSE EnterLoop(path, "compressed", parse_parts_compressed(decompressed.text))

\* restore_files_from_compressed_txt(path, output folder) up to its loop,
\* reached through restore_files_from_txt when the first line is COMPRESSED
restore_files_from_compressed_txt ==
    /\ pc = "idle"
    /\ Len(history) < MaxRestores
    /\ \E path \in DOMAIN snapshots :
          /\ utf8_valid(snapshots[path]) = TRUE
          /\ first_line_of(read_file_text(snapshots[path])) = "COMPRESSED"
          /\ Decompressed(path, decompress_container(
                                    rest_after_first_line(read_file_text(snapshots[path]))))
    /\ UNCHANGED <<backup_destination, max_backups_to_keep,
                   platform, source, snapshots, now>>

\* the counters of the running restore, as one record
counters == [success_count |-> success_count, error_count |-> error_count,
             error_details |-> error_details]

\* the state after a pass that left the file system done.fs and the message
\* done.error
EndPass(done, counts) ==
    /\ dest' = done.fs
    /\ success_count' = counts.success_count
    /\ error_count' = counts.error_count
    /\ error_details' = counts.error_details

Pass(done) == EndPass(done, tally(counters, done.error))

\* one pass of the loop of either restorer
RestoreRecord ==
    /\ pc = "loop"
    /\ idx <= total_blocks
    /\ Pass(restore_record(dest, parts[(3 * (idx - 1)) + 2], parts[(3 * (idx - 1)) + 3],
                           platform, now, restorer = "txt"))
    /\ idx' = idx + 1
    /\ UNCHANGED <<backup_destination, max_backups_to_keep,
                   platform, source, snapshots, now, pc, txt_path, restorer, parts, history>>

\* the end of the loop: the summary, and the report file of restore_files_from_txt
RestoreFinish ==
    /\ pc = "loop"
    /\ idx > total_blocks
    /\ dest' = IF restorer = "txt"
               THEN create_restore_report(dest, counters, now, platform)
               ELSE dest
    /\ EndRestore(txt_path, restorer, "completed")
    /\ UNCHANGED <<backup_destination, max_backups_to_keep,
                   platform, source, snapshots, now, txt_path, restorer, parts, idx,
                   success_count, error_count, error_details>>

\* a second passes
Tick ==
    /\ now < MaxClock
    /\ now' = now + 1
    /\ UNCHANGED <<backup_destination, max_backups_to_keep,
                   platform, source, snapshots, dest, pc, txt_path, restorer, parts, idx,
                   success_count, error_count, error_details, history>>

Next ==
    \/ gather_files_to_txt
    \/ gather_files_to_txt_compressed
    \/ restore_files_from_txt
    \/ restore_files_from_compressed_txt
    \/ RestoreRecord
    \/ RestoreFinish
    \/ Tick

Spec == Init /\ [][Next]_vars

(***************************************************************************)
(* Truncated artifacts: the same program, with a step that cuts the one    *)
(* snapshot file to a proper prefix of its bytes before it is restored.    *)
(***************************************************************************)
\* the trees whose artifacts are cut: a text file, a text file and a binary
\* file, an empty directory
TruncSources == {Tree({1}), Tree({1, 4}), Tree({7})}

InitTrunc ==
    /\ platform \in Platforms
    /\ source \in TruncSources
    /\ snapshots = [n \in {} |-> <<>>]
    /\ dest = EmptyFS
    /\ now = 0
    /\ pc = "idle"
    /\ txt_path = ""
    /\ restorer = ""
    /\ parts = <<>>
    /\ idx = 1
    /\ success_count = 0
    /\ error_count = 0
    /\ error_details = <<>>
    /\ history = <<>>
    /\ backup_destination = NoBackups
    /\ max_backups_to_keep = default_max_backups_to_keep

\* the snapshot file loses its bytes from offset k on
Truncate ==
    /\ pc = "idle"
    /\ history = <<>>
    /\ Cardinality(DOMAIN snapshots) = 1
    /\ \E path \in DOMAIN snapshots : \E k \in 0..(Len(snapshots[path]) - 1) :
          snapshots' = [snapshots EXCEPT ![path] = SubSeq(@, 1, k)]
    /\ UNCHANGED <<backup_destination, max_backups_to_keep,
                   platform, source, dest, now, pc, txt_path, restorer, parts, idx,
                   success_count, error_count, error_details, history>>

NextTrunc ==
    \/ gather_files_to_txt
    \/ gather_files_to_txt_compressed
    \/ Truncate
    \/ restore_files_from_txt
    \/ restore_files_from_compressed_txt
    \/ RestoreRecord
    \/ RestoreFinish

SpecTrunc == InitTrunc /\ [][NextTrunc]_vars

(***************************************************************************)
(* Artifacts from elsewhere: the restorers read whatever file txt_path     *)
(* names.  The snapshot file is one of a small set of files that were not  *)
(* written by this process: containers with recognised and unrecognised    *)
(* method tags, with and without a base85 payload.                         *)
(***************************************************************************)
\* the stream of the tree {a.txt = "hello\n"}
ArtifactStream == "\n@a.txt\nhello\n\n"

\* a stream written on a host where CON, NUL.txt and sub/a<b.txt are file names
DeviceNameStream == "\n@CON\nx\n\n@NUL.txt\ny\n\n@sub/a<b.txt\nz\n\n"

\* a stream whose stored paths are absolute or climb with '..'
OutsidePathStream == "\n@../up.txt\nx\n\n@/abs.txt\ny\n\n@//etc/x\nz\n\n"

\* the text before the first ':' of a container
ArtifactTags == {"LZMA", "ZLIB", "RAW", "XZ", "lzma", ""}

\* the text after the first ':': a base85 LZMA stream, the stream itself,
\* base85 text that is no stream, text that is not base85
ArtifactPayloads ==
    {b85encode(lib_compress("lzma", utf8_encode(ArtifactStream))), ArtifactStream, "abcde",
     "not base85"}

Artifacts ==
    {"COMPRESSED\n" \o tag \o ":" \o payload : tag \in ArtifactTags, payload \in ArtifactPayloads}
    \cup {"COMPRESSED\n" \o payload : payload \in ArtifactPayloads}
    \cup {"UNCOMPRESSED\n" \o ArtifactStream, "UNCOMPRESSED\n" \o DeviceNameStream,
          "UNCOMPRESSED\n" \o OutsidePathStream}

artifact_name == "artifact.txt"

InitArtifact ==
    /\ platform \in Platforms
    /\ source = Tree({1})
    /\ snapshots \in {[n \in {artifact_name} |-> utf8_encode(a)] : a \in Artifacts}
    /\ dest = EmptyFS
    /\ now = 0
    /\ pc = "idle"
    /\ txt_path = ""
    /\ restorer = ""
    /\ parts = <<>>
    /\ idx = 1
    /\ success_count = 0
    /\ error_count = 0
    /\ error_details = <<>>
    /\ history = <<>>
    /\ backup_destination = NoBackups
    /\ max_backups_to_keep = default_max_backups_to_keep

NextArtifact ==
    \/ restore_files_from_txt
    \/ restore_files_from_compressed_txt
    \/ RestoreRecord
    \/ RestoreFinish
    \/ Tick

SpecArtifact == InitArtifact /\ [][NextArtifact]_vars

(***************************************************************************)
(* Any lines: the artifact holds every sequence of up to MaxLines lines,   *)
(* each a marker, an error marker, a decorator, a binary tag, an empty     *)
(* line or a line of text; the short ones also come compressed.            *)
(***************************************************************************)
ScanLines == {"@a.txt", "!a.txt", "@property", "B", "", "x"}

MaxLines == 3

MaxCompressedLines == 1

LineSequences(longest) == UNION {[1..n -> ScanLines] : n \in 0..longest}

ScanArtifacts ==
    {"UNCOMPRESSED\n" \o join("\n", ls) : ls \in LineSequences(MaxLines)}
        \cup {"COMPRESSED\n" \o b85encode(lib_compress("lzma", utf8_encode(join("\n", ls)))) :
                 ls \in LineSequences(MaxCompressedLines)}

InitScan ==
    /\ platform \in Platforms
    /\ source = Tree({1})
    /\ snapshots \in {[n \in {artifact_name} |-> utf8_encode(a)] : a \in ScanArtifacts}
    /\ dest = EmptyFS
    /\ now = 0
    /\ pc = "idle"
    /\ txt_path = ""
    /\ restorer = ""
    /\ parts = <<>>
    /\ idx = 1
    /\ success_count = 0
    /\ error_count = 0
    /\ error_details = <<>>
    /\ history = <<>>
    /\ backup_destination = NoBackups
    /\ max_backups_to_keep = default_max_backups_to_keep

NextScan ==
    \/ restore_files_from_txt
    \/ restore_files_from_compressed_txt
    \/ RestoreRecord
    \/ RestoreFinish

SpecScan == InitScan /\ [][NextScan]_vars

(***************************************************************************)
(* The multi-codec race: the same encoders over source folders whose       *)
(* stream is at or above the size threshold of both platforms, next to a   *)
(* folder below it.                                                        *)
(***************************************************************************)
RECURSIVE repeated(_, _)
repeated(s, n) ==
    IF n = 0 THEN ""
    ELSE IF n = 1 THEN s
    ELSE repeated(s, n \div 2) \o repeated(s, n - (n \div 2))

\* the lines of a large text file, and their length
LongLines == 42

LineLength == 100

\* a text file of LongLines lines; the first line ends in pad blanks
big_text(pad) ==
    repeated("a", LineLength) \o repeated(" ", pad) \o "\n"
    \o repeated(repeated("b", LineLength) \o "\n", LongLines - 1)

RaceSources ==
    { Tree({1}),
      <<TextFile("big.txt", big_text(0))>>,
      <<TextFile("big.txt", big_text(10))>>,
      <<TextFile("big.txt", big_text(600)), Pool[4]>> }

InitRace ==
    /\ platform \in Platforms
    /\ source \in RaceSources
    /\ snapshots = [n \in {} |-> <<>>]
    /\ dest = EmptyFS
    /\ now = 0
    /\ pc = "idle"
    /\ txt_path = ""
    /\ restorer = ""
    /\ parts = <<>>
    /\ idx = 1
    /\ success_count = 0
    /\ error_count = 0
    /\ error_details = <<>>
    /\ history = <<>>
    /\ backup_destination = NoBackups
    /\ max_backups_to_keep = default_max_backups_to_keep

NextRace ==
    \/ gather_files_to_txt
    \/ gather_files_to_txt_compressed

SpecRace == InitRace /\ [][NextRace]_vars

(***************************************************************************)
(* The folder of the worked example: a text file, a binary file of three   *)
(* bytes and an empty directory.                                           *)
(***************************************************************************)
\* the three bytes of img.bin
ThreeBytes == {<<1, 2, 255>>, <<0, 0, 0>>, <<97, 98, 99>>, <<13, 10, 26>>}

ScenarioSources ==
    { << TextFile("a.txt", "hello\n"),
         [path |-> "img.bin", kind |-> "file", data |-> bytes, readable |-> TRUE],
         [path |-> "empty", kind |-> "dir", data |-> <<>>, readable |-> TRUE] >>
      : bytes \in ThreeBytes }

InitScenario ==
    /\ platform \in Platforms
    /\ source \in ScenarioSources
    /\ snapshots = [n \in {} |-> <<>>]
    /\ dest = EmptyFS
    /\ now = 0
    /\ pc = "idle"
    /\ txt_path = ""
    /\ restorer = ""
    /\ parts = <<>>
    /\ idx = 1
    /\ success_count = 0
    /\ error_count = 0
    /\ error_details = <<>>
    /\ history = <<>>
    /\ backup_destination = NoBackups
    /\ max_backups_to_keep = default_max_backups_to_keep

SpecScenario == InitScenario /\ [][Next]_vars

(***************************************************************************)
(* Trees with names of everyday projects: a dot file, a package with       *)
(* double underscores, two files whose names differ by one underscore.     *)
(***************************************************************************)
NameSources ==
    { << TextFile(".gitignore", "x\n"), TextFile("pkg/__init__.py", "y\n") >>,
      << TextFile("a__b.txt", "1\n"), TextFile("a_b.txt", "2\n") >>,
      << TextFile("plain.txt", "p\n") >> }

InitNames ==
    /\ platform \in Platforms
    /\ source \in NameSources
    /\ snapshots = [n \in {} |-> <<>>]
    /\ dest = EmptyFS
    /\ now = 0
    /\ pc = "idle"
    /\ txt_path = ""
    /\ restorer = ""
    /\ parts = <<>>
    /\ idx = 1
    /\ success_count = 0
    /\ error_count = 0
    /\ error_details = <<>>
    /\ history = <<>>
    /\ backup_destination = NoBackups
    /\ max_backups_to_keep = default_max_backups_to_keep

SpecNames == InitNames /\ [][Next]_vars

(***************************************************************************)
(* Trees of one text file f.txt, alone or followed by g.txt: the file is   *)
(* empty, ends with no, one or two newlines, or starts with the text of a  *)
(* tag of the restorer.                                                    *)
(***************************************************************************)
NewlineTexts ==
    {"", "x", "x\n", "x\n\n", "\n", "\n\n", "a\nb", "a\nb\n", " x \n",
     "[BINARY_FILE_BASE64]\naGk=\n", " [EMPTY_DIRECTORY]\n"}

NewlineSources ==
    {<<TextFile("f.txt", text)>> : text \in NewlineTexts}
        \cup {<<TextFile("f.txt", text), TextFile("g.txt", "tail\n")>> : text \in NewlineTexts}

InitNewline ==
    /\ platform \in Platforms
    /\ source \in NewlineSources
    /\ snapshots = [n \in {} |-> <<>>]
    /\ dest = EmptyFS
    /\ now = 0
    /\ pc = "idle"
    /\ txt_path = ""
    /\ restorer = ""
    /\ parts = <<>>
    /\ idx = 1
    /\ success_count = 0
    /\ error_count = 0
    /\ error_details = <<>>
    /\ history = <<>>
    /\ backup_destination = NoBackups
    /\ max_backups_to_keep = default_max_backups_to_keep

NextNewline ==
    \/ gather_files_to_txt
    \/ restore_files_from_txt
    \/ RestoreRecord
    \/ RestoreFinish

SpecNewline == InitNewline /\ [][NextNewline]_vars

(***************************************************************************)
(* An input path that is one regular file.                                 *)
(***************************************************************************)
RootFile(path, data, nearby) ==
    [path |-> path, kind |-> "rootfile", data |-> data, readable |-> TRUE, nearby |-> nearby]

\* a text file, a binary file, a text file whose first line names a path
\* that does not exist, and text files whose first non-empty line names a
\* file that exists
SingleFileSources ==
    { <<RootFile("single.txt", utf8_encode("hello\n"), <<>>)>>,
      <<RootFile("single.bin", <<1, 2, 255>>, <<>>)>>,
      <<RootFile("notes.txt", utf8_encode("o/a.txt\nmore\n"), <<>>)>>,
      <<RootFile("notes.txt", utf8_encode("o/a.txt\nmore\n"), <<TextFile("o/a.txt", "hello\n")>>)>>,
      <<RootFile("todo.txt", utf8_encode("\n o/img.bin \no/a.txt\n"),
                 <<TextFile("o/a.txt", "hello\n"),
                   [path |-> "o/img.bin", kind |-> "file", data |-> <<1, 2, 255>>,
                    readable |-> TRUE]>>)>> }

InitSingleFile ==
    /\ platform \in Platforms
    /\ source \in SingleFileSources
    /\ snapshots = [n \in {} |-> <<>>]
    /\ dest = EmptyFS
    /\ now = 0
    /\ pc = "idle"
    /\ txt_path = ""
    /\ restorer = ""
    /\ parts = <<>>
    /\ idx = 1
    /\ success_count = 0
    /\ error_count = 0
    /\ error_details = <<>>
    /\ history = <<>>
    /\ backup_destination = NoBackups
    /\ max_backups_to_keep = default_max_backups_to_keep

SpecSingleFile == InitSingleFile /\ [][Next]_vars

(***************************************************************************)
(* The output path of the command line: the snapshot that                  *)
(* gather_files_to_txt wrote is moved to the path given with --output, or  *)
(* to a numbered name next to it when that path is taken.                  *)
(***************************************************************************)
\* the names --output may give, in one directory
OutputNames == {"file.txt", ".bashrc", "a.", "noext", "a.tar.gz"}

\* the names that may already exist in that directory, as empty files
TakenNames ==
    {"file.txt", "file_1.txt", "file_2.txt", ".bashrc", ".bashrc_1", "a.", "a._1",
     "noext", "a.tar.gz", "a.tar_1.gz"}

MaxTaken == 4

MaxMoves == 2

\* the snapshots that have been moved to an output path
moved == {n \in DOMAIN snapshots : snapshots[n] # <<>>} \ {combined_name}

InitUnique ==
    /\ platform \in Platforms
    /\ source = Tree({1})
    /\ \E taken \in {t \in SUBSET TakenNames : Cardinality(t) <= MaxTaken} :
          snapshots = [n \in taken |-> <<>>]
    /\ dest = EmptyFS
    /\ now = 0
    /\ pc = "idle"
    /\ txt_path = ""
    /\ restorer = ""
    /\ parts = <<>>
    /\ idx = 1
    /\ success_count = 0
    /\ error_count = 0
    /\ error_details = <<>>
    /\ history = <<>>
    /\ backup_destination = NoBackups
    /\ max_backups_to_keep = default_max_backups_to_keep

\* run_command_line_mode with --output: shutil.move of the snapshot file to
\* get_unique_filepath(final_output)
move_to_output ==
    /\ pc = "idle"
    /\ combined_name \in DOMAIN snapshots
    /\ Cardinality(moved) < MaxMoves
    /\ \E final_output \in OutputNames :
          LET target == get_unique_filepath(DOMAIN snapshots, final_output)
          IN  snapshots' = [n \in (DOMAIN snapshots \ {combined_name}) \cup {target} |->
                               IF n = target THEN snapshots[combined_name] ELSE snapshots[n]]
    /\ UNCHANGED <<backup_destination, max_backups_to_keep,
                   platform, source, dest, now, pc, txt_path, restorer, parts, idx,
                   success_count, error_count, error_details, history>>

NextUnique == gather_files_to_txt \/ move_to_output

SpecUnique == InitUnique /\ [][NextUnique]_vars

(***************************************************************************)
(* periodic_backup: backups of the configured sources are made as the      *)
(* clock advances by seconds and by days, under a retention limit read     *)
(* from the configuration file by every run.                               *)
(***************************************************************************)
\* the names of the configured backup sources
BackupSourceNames == {"docs", "my_app"}

\* the values the configuration file may give max_backups_to_keep
KeepValues == {-1, 0, 1, 2}

MaxDays == 1

MaxSeconds == 1

InitBackup ==
    /\ platform = "Linux"
    /\ source = Tree({1})
    /\ snapshots = [n \in {} |-> <<>>]
    /\ dest = EmptyFS
    /\ now = 0
    /\ pc = "idle"
    /\ txt_path = ""
    /\ restorer = ""
    /\ parts = <<>>
    /\ idx = 1
    /\ success_count = 0
    /\ error_count = 0
    /\ error_details = <<>>
    /\ history = <<>>
    /\ backup_destination = NoBackups
    /\ max_backups_to_keep \in KeepValues

backup_unchanged ==
    UNCHANGED <<platform, source, snapshots, dest, pc, txt_path, restorer, parts, idx,
                success_count, error_count, error_details, history>>

\* PeriodicBackup(config): a run starts and reads max_backups_to_keep from the
\* configuration file, which the user may have edited
load_config ==
    /\ \E kept \in KeepValues : max_backups_to_keep' = kept
    /\ UNCHANGED <<backup_destination, now>>
    /\ backup_unchanged

\* create_backup(source_name): the snapshot is moved to the destination under
\* its timestamped name, then cleanup_old_backups runs
create_backup ==
    /\ \E source_name \in BackupSourceNames :
          LET final_backup_path == backup_file_name(source_name, now)
              written == [f \in DOMAIN backup_destination \cup {final_backup_path} |->
                             IF f = final_backup_path THEN now ELSE backup_destination[f]]
          IN  backup_destination' = cleaned(written, max_backups_to_keep)
    /\ UNCHANGED <<max_backups_to_keep, now>>
    /\ backup_unchanged

\* the cleanup command
cleanup_old_backups ==
    /\ backup_destination' = cleaned(backup_destination, max_backups_to_keep)
    /\ UNCHANGED <<max_backups_to_keep, now>>
    /\ backup_unchanged

\* a second passes
next_second ==
    /\ now % seconds_per_day < MaxSeconds
    /\ now' = now + 1
    /\ UNCHANGED <<backup_destination, max_backups_to_keep>>
    /\ backup_unchanged

\* a day passes
next_day ==
    /\ now \div seconds_per_day < MaxDays
    /\ now' = now + seconds_per_day
    /\ UNCHANGED <<backup_destination, max_backups_to_keep>>
    /\ backup_unchanged

NextBackup ==
    \/ load_config
    \/ create_backup
    \/ cleanup_old_backups
    \/ next_second
    \/ next_day

SpecBackup == InitBackup /\ [][NextBackup]_vars

(***************************************************************************)
(* Properties.                                                             *)
(***************************************************************************)
\* the restore that ended last
last_restore == history[Len(history)]

\* exactly one restore has run, by the restorer named, through its loop to
\* its end: it found the destination fresh
round_trip_done(by) ==
    /\ pc = "idle"
    /\ Len(history) = 1
    /\ history[1].restorer = by
    /\ history[1].outcome = "completed"

\* the same bytes, or the same but for one trailing newline
differs_by_newline(restored, original) ==
    \/ restored = original
    \/ restored = original \o <<10>>
    \/ restored \o <<10>> = original

\* the entry is a file the encoder reads and writes as text
is_text_entry(f) == f.kind = "file" /\ f.readable /\ ~binary_check_func(f, platform)

\* the destination holds the entry at its relative path
entry_restored(f) ==
    IF f.kind = "dir"
    THEN isdir(dest, f.path) /\ \A k \in DOMAIN dest : ~startswith(k, f.path \o "/")
    ELSE /\ isfile(dest, f.path)
         /\ IF is_text_entry(f) THEN differs_by_newline(dest[f.path].data, f.data)
            ELSE dest[f.path].data = f.data

\* C1: after gather_files_to_txt and one restore_files_from_txt into a fresh
\* destination, every readable file of the source is at its relative path
\* with the same bytes (a text file may differ by one trailing newline) and
\* every empty directory is an empty directory there.
C1_UncompressedRoundTrip ==
    round_trip_done("txt") =>
        \A k \in 1..Len(source) : source[k].readable => entry_restored(source[k])

\* C2: after gather_files_to_txt_compressed and one
\* restore_files_from_compressed_txt into a fresh destination, every readable
\* file of the source is at its relative path with the same content (blank
\* lines and trailing whitespace included; one trailing newline of a text
\* file is let pass) and every empty directory is there.
C2_CompressedRoundTrip ==
    round_trip_done("compressed") =>
        \A j \in 1..Len(source) : source[j].readable => entry_restored(source[j])

\* the bytes gather_files_to_txt_compressed writes for the source when every
\* codec is available
whole_artifact ==
    write_text("COMPRESSED\n" \o compress_text_advanced(assemble(source, platform), platform, {}),
               platform)

\* C3: for a compressed snapshot file written with every codec available,
\* undoing the container (the decoder's inverse for the tag it carries)
\* yields exactly the stream that was assembled for the source.
C3_CompressionTransparency ==
    \A n \in DOMAIN snapshots :
        snapshots[n] = whole_artifact =>
            decompress_container(rest_after_first_line(read_file_text(snapshots[n])))
                = [outcome |-> "ok", text |-> assemble(source, platform)]

\* every line of the text that begins with '@' is one the decoder's test
\* lets pass as content (a false-positive pattern), there is such a line, and
\* nothing else of the text looks like framing
only_false_positives(text) ==
    LET lines == split(text, "\n")
    IN  /\ \E i \in 1..Len(lines) : startswith(lines[i], "@")
        /\ \A i \in 1..Len(lines) :
              /\ startswith(lines[i], "@") => ~is_file_marker(lines[i])
              /\ ~startswith(lines[i], "!")
        /\ lines[1] \notin {"B", "[EMPTY_DIRECTORY]"}

\* the text of a restored file, read back, is the original text but for one
\* trailing newline
same_text(restored, text) ==
    \/ read_file_text(restored) = text
    \/ read_file_text(restored) = text \o "\n"
    \/ read_file_text(restored) \o "\n" = text

\* C4: a text file whose '@' lines are all false-positive patterns comes out
\* of the uncompressed round trip with its content (every line, the blank
\* line before the '@' line included), but for one trailing newline.
C4_AmbiguityResistance ==
    round_trip_done("txt") =>
        \A k \in 1..Len(source) :
            (is_text_entry(source[k]) /\ only_false_positives(read_text(source[k]))) =>
                /\ total_blocks = Len(source)
                /\ isfile(dest, source[k].path)
                /\ same_text(dest[source[k].path].data, read_text(source[k]))

\* C5: a restore of an artifact cut at any byte offset ends without an
\* exception that nothing handles, and a restore that completes has restored
\* at most as many records as the source has entries.
C5_TruncationResilience ==
    /\ \A i \in 1..Len(history) :
          history[i].outcome \notin {"raised IndexError", "raised UnicodeDecodeError"}
    /\ (pc = "idle" /\ history # <<>> /\ last_restore.outcome = "completed") =>
          success_count <= Len(source)

\* a file of the destination is a backup copy of the file at key p: it lies
\* in the .snapshot_backups directory next to p and carries p's name
has_backup(p) ==
    \E b \in DOMAIN dest :
        /\ isfile(dest, b)
        /\ startswith(b, child_key(child_key(parent_key(p), ".snapshot_backups"),
                                   basename_key(p) \o ".backup_"))

\* C6: after the same artifact has been restored twice into the same
\* destination by the same restorer, every source file that the destination
\* holds has a backup copy under .snapshot_backups next to it.
C6_IdempotentRestore ==
    (/\ pc = "idle"
     /\ Len(history) = 2
     /\ history[1] = history[2]
     /\ history[2].outcome = "completed") =>
        \A k \in 1..Len(source) :
            (source[k].kind = "file" /\ source[k].readable /\ isfile(dest, source[k].path)) =>
                has_backup(source[k].path)

\* the content block of the record the loop handles next
content_block_at(i) == parts[(3 * (i - 1)) + 3]

\* the key of the destination the record i is written to
target_at(i) == full_path(sanitize_file_path(parts[(3 * (i - 1)) + 2], platform), platform)

\* C7: the pass of the loop over a record that stems from an error marker
\* line leaves the destination as it is.
C7_ErrorRecordNoAction ==
    [][(pc = "loop" /\ idx' = idx + 1 /\ startswith(content_block_at(idx), "ERROR: "))
          => dest' = dest]_vars

\* C8: every pass of the loop counts its record as one success or one error
\* and goes on to the next record; when a restore has completed,
\* success_count + error_count is the number of decoded records and
\* error_details holds error_count items.
C8_ErrorIsolation ==
    /\ pc = "loop" =>
          /\ success_count + error_count = idx - 1
          /\ Len(error_details) = error_count
          /\ idx <= total_blocks + 1
    /\ (pc = "idle" /\ history # <<>> /\ last_restore.outcome = "completed") =>
          /\ success_count + error_count = total_blocks
          /\ Len(error_details) = error_count

\* a loop in which the first record failed and a later record was restored
C8_Witness ==
    /\ pc = "loop"
    /\ idx > 2
    /\ success_count >= 1
    /\ error_count >= 1
    /\ \E kind \in {"FileSystemError", "Base64DecodeError", "UnknownError"} :
          error_details[1] = error_message(kind, sanitize_file_path(parts[2], platform))

\* C9: the pass of the loop over a binary record whose base64 payload is
\* invalid adds exactly one error and leaves the record's target as it was:
\* no file is created there and a file there keeps its content.
C9_InvalidBase64Skipped ==
    [][(/\ pc = "loop"
        /\ idx' = idx + 1
        /\ Len(error_details') = Len(error_details) + 1
        /\ startswith(error_details'[Len(error_details')], "Base64DecodeError"))
          => /\ error_count' = error_count + 1
             /\ success_count' = success_count
             /\ (target_at(idx) \in DOMAIN dest) = (target_at(idx) \in DOMAIN dest')
             /\ target_at(idx) \in DOMAIN dest => dest'[target_at(idx)] = dest[target_at(idx)]]_vars

\* C10: the records of the restorer's loop are the entries of the source:
\* as many, with the same paths, in the same order.
C10_OriginalOrder ==
    pc = "loop" =>
        [i \in 1..total_blocks |-> parts[(3 * (i - 1)) + 2]]
            = [k \in 1..Len(source) |-> source[k].path]


\* the method tags restore_files_from_compressed_txt recognises
recognised_tags == {"LZMA", "BZ2", "ZLIB", "RAW", "LZMA_EXTREME", "ZLIB_ULTRA", "BZ2_MAX"}

\* the text after the first line of the snapshot file
container_of(name) == rest_after_first_line(read_file_text(snapshots[name]))

\* the container has a ':' and the text before the first one is no recognised tag
unrecognised_tag(name) ==
    /\ contains(container_of(name), ":")
    /\ split1(container_of(name), ":")[1] \notin recognised_tags

\* the step is the end of a restore by restore_files_from_compressed_txt that
\* began in this step
compressed_restore_ends ==
    /\ pc = "idle"
    /\ Len(history') = Len(history) + 1
    /\ history'[Len(history')].restorer = "compressed"

\* C11: a restore by restore_files_from_compressed_txt of a COMPRESSED
\* artifact whose text before the first ':' is not a recognised tag ends with
\* an error message in the step it begins, restores no record (the loop is
\* not entered, the counters stay) and leaves the file system as it was: the
\* output folder is not made.
C11_UnsupportedCodecFatal ==
    [][(compressed_restore_ends /\ unrecognised_tag(history'[Len(history')].txt_path))
        => /\ dest' = dest
           /\ pc' = "idle"
           /\ success_count' = success_count
           /\ history'[Len(history')].outcome \in
                  {"error: unsupported method", "error: decompression failed"}]_vars

\* an artifact with the tag XZ and a sound base85 payload has been refused
\* for its method, and the file system is still empty
C11_Witness ==
    /\ history # <<>>
    /\ last_restore.outcome = "error: unsupported method"
    /\ unrecognised_tag(last_restore.txt_path)
    /\ dest = EmptyFS

\* the snapshot file gather_files_to_txt_compressed writes for the source when
\* every codec raises
fallback_artifact ==
    write_text("COMPRESSED\n" \o compress_text_advanced(assemble(source, platform), platform, Codecs),
               platform)

\* C12: the container the dispatcher emits when every codec fails is one
\* restore_files_from_compressed_txt decodes: its decompression step succeeds
\* and the records it finds are the records of the original stream.
C12_GracefulDegradation ==
    \A n \in DOMAIN snapshots :
        (Len(source) > 0 /\ snapshots[n] = fallback_artifact)
        => /\ decompress_container(container_of(n)).outcome = "ok"
           /\ parse_parts_compressed(decompress_container(container_of(n)).text)
                  = parse_parts_compressed(assemble(source, platform))

\* the snapshot files written by gather_files_to_txt_compressed
compressed_snapshots == DOMAIN snapshots \ {combined_name}

\* the text after the method tag of a container (the whole container when it
\* has no tag)
payload_of(name) ==
    IF contains(container_of(name), ":") THEN split1(container_of(name), ":")[2]
    ELSE container_of(name)

\* the method tag of a container; the untagged container is LZMA
tag_of(name) ==
    IF contains(container_of(name), ":") THEN split1(container_of(name), ":")[1] ELSE "LZMA"

\* the container holds a codec's output: its payload is base85 text
codecs_worked(name) == payload_of(name) # "" /\ b85decode(payload_of(name)).ok

\* the stream of the source is at or above the size threshold, before and
\* after preprocess_for_compression: both compressors run their race
race_ran ==
    /\ Len(utf8_encode(assemble(source, platform))) >= size_threshold(platform)
    /\ Len(utf8_encode(preprocess_for_compression(assemble(source, platform))))
           >= size_threshold(platform)

\* the candidates compress_text_advanced computes for the source when no
\* codec raises: those of its own race, then those of compress_text
all_candidates ==
    candidates(advanced_algorithms(platform),
               advanced_blobs(utf8_encode(reorganize_content_for_compression(
                   preprocess_for_compression(assemble(source, platform))))),
               {})
    \o candidates(standard_algorithms(platform),
                  standard_blobs(utf8_encode(reorganize_content_for_compression(
                      assemble(source, platform)))),
                  {})

\* C13: when both races ran and no codec raised, the container written by
\* gather_files_to_txt_compressed carries one of the candidates
\* compress_text_advanced computed for the stream (its own and those of
\* compress_text), and no candidate has a shorter encoded text.
C13_SmallestWins ==
    \A n \in compressed_snapshots :
        (race_ran /\ codecs_worked(n))
        => /\ \E k \in 1..Len(all_candidates) :
                  all_candidates[k] = <<tag_of(n), payload_of(n)>>
           /\ \A k \in 1..Len(all_candidates) :
                  Len(payload_of(n)) <= Len(all_candidates[k][2])

combined_text == read_file_text(snapshots[combined_name])

\* C16: in the stream gather_files_to_txt writes, an entry whose read failed
\* has its error record ('!' and the path on a line of its own) and no file
\* record ('@' and the path on a line of its own).
C16_ReadFailureBecomesErrorEntry ==
    combined_name \in DOMAIN snapshots
    => \A k \in 1..Len(source) :
           ~source[k].readable
           => /\ contains(combined_text, "\n!" \o source[k].path \o "\n")
              /\ ~contains(combined_text, "\n@" \o source[k].path \o "\n")

\* the stream of one file record for the root file: its base name and its
\* content
single_record == encode_entry(as_entry(source[1]), platform)

\* C17: for an input path that is one regular file, the snapshot written by
\* gather_files_to_txt holds exactly the one file record of that file under
\* its base name, and the stream gather_files_to_txt_compressed hands to the
\* dispatcher is that same record, whatever the file's content.
C17_SingleFileRoot ==
    is_single_file(source)
    => \A n \in DOMAIN snapshots :
           IF n = combined_name
           THEN read_file_text(snapshots[n]) = "UNCOMPRESSED\n" \o single_record
           ELSE \E f \in CodecFaults :
                    snapshots[n] = write_text("COMPRESSED\n"
                                                  \o compress_text_advanced(single_record, platform, f),
                                              platform)

\* the segments of the path sanitize_file_path returns on a platform
sanitized_segments(file_path, plat) == split(sanitize_file_path(file_path, plat), os_sep(plat))

\* C18: sanitize_file_path gives the stored path of every record of the
\* running restore the same segments on a Windows host and on any other
\* host: reserved device names, illegal characters and length caps are
\* handled alike.
C18_UniformNamePolicy ==
    pc = "loop"
    => \A i \in 1..total_blocks :
           sanitized_segments(parts[(3 * (i - 1)) + 2], "Linux")
               = sanitized_segments(parts[(3 * (i - 1)) + 2], "Windows")

\* the path is an entry of the source, or a directory above one
in_source(p) ==
    \E j \in 1..Len(source) : source[j].path = p \/ startswith(source[j].path, p \o "/")

\* C19: after a folder has been encoded and restored once into a fresh
\* destination, by the uncompressed pair or by the compressed pair, every
\* file and directory under the output folder is an entry of the source (or
\* a directory above one): the restore has added nothing of its own.
C19_RestoreAddsNothing ==
    (round_trip_done("txt") \/ round_trip_done("compressed"))
    => \A p \in DOMAIN dest \ {""} : in_source(p)

\* the snapshot file of gather_files_to_txt has lost bytes at its end
combined_is_cut ==
    /\ combined_name \in DOMAIN snapshots
    /\ snapshots[combined_name]
           # write_text("UNCOMPRESSED\n" \o assemble(files_to_process(source), platform), platform)

\* C20: a restore by restore_files_from_txt of a proper prefix of the
\* snapshot gather_files_to_txt wrote does not run to its end without a
\* warning: when it completes, at least one record has been reported as
\* failed.
C20_TruncationReported ==
    (/\ pc = "idle"
     /\ history # <<>>
     /\ last_restore.restorer = "txt"
     /\ last_restore.txt_path = combined_name
     /\ combined_is_cut
     /\ last_restore.outcome = "completed")
    => error_count > 0

(***************************************************************************)
(* Progress reporting.                                                     *)
(***************************************************************************)
\* the directories above the path p inside the source folder
directories_above(p) == {SubSeq(p, 1, i - 1) : i \in {j \in 1..Len(p) : Ch(p, j) = "/"}}

\* source_dir.rglob('*'): every file and every directory under the source
\* folder, the directories that hold an entry included
paths_under(src) ==
    {src[k].path : k \in 1..Len(src)}
        \cup UNION {directories_above(src[k].path) : k \in 1..Len(src)}

\* C21: gather_files_to_txt on a directory calls the progress callback once
\* for every file and every directory under the source (empty or not, at any
\* depth), and its last call is (N, N), N being that number of paths.
C21_ProgressReporting ==
    (combined_name \in DOMAIN snapshots /\ ~is_single_file(source))
    => LET calls == show_progress_calls(files_to_process(source))
           N == Cardinality(paths_under(source))
       IN  /\ Len(calls) = N
           /\ N > 0 => calls[Len(calls)] = <<N, N>>

(***************************************************************************)
(* The empty source.                                                       *)
(***************************************************************************)
\* C22: a directory with no entries, encoded (the codec of the compressed
\* encoder having worked) and restored by either pair, yields an output
\* folder that exists and holds no entry at all.
C22_EmptySource ==
    (/\ source = <<>>
     /\ pc = "idle"
     /\ history # <<>>
     /\ \A n \in compressed_snapshots : codecs_worked(n))
    => isdir(dest, "") /\ DOMAIN dest = {""}

\* the empty source has been restored by both restorers
C22_Witness ==
    /\ source = <<>>
    /\ pc = "idle"
    /\ Len(history) = 2
    /\ history[1].restorer # history[2].restorer
    /\ \A n \in compressed_snapshots : codecs_worked(n)
    /\ isdir(dest, "")

(***************************************************************************)
(* Unique output paths.                                                    *)
(***************************************************************************)
\* the path is taken and so are its numbered names below the counter k
taken_below(existing, p, k) ==
    p \in existing /\ \A j \in 1..(k - 1) : new_name(p, j) \in existing

\* what get_unique_filepath returns for every path --output may give, in the
\* directory as it is
returns_least_free_name ==
    \A p \in OutputNames :
        LET existing == DOMAIN snapshots
            returned == get_unique_filepath(existing, p)
        IN  /\ p \notin existing => returned = p
            /\ p \in existing =>
                  \E k \in 1..(Cardinality(existing) + 1) :
                      /\ returned = new_name(p, k)
                      /\ taken_below(existing, p, k)
            /\ returned \notin existing

\* every file but the snapshot that is moved stays as it is
keeps_every_file ==
    \A n \in DOMAIN snapshots \ {combined_name} :
        n \in DOMAIN snapshots' /\ snapshots'[n] = snapshots[n]

source_of(file) == SubSeq(file, Len("backup_") + 1, Len(file) - Len("_20240101_000000.txt"))

backups_of(backups, source_name) == {f \in DOMAIN backups : source_of(f) = source_name}

\* C24: after cleanup_old_backups with max_backups_to_keep = N > 0 (alone, or
\* at the end of create_backup), at most N backup files of each source are
\* left, whatever their dates, and they are the most recently modified of
\* that source; with N <= 0 no file is removed.
C24_BackupRetention ==
    [][(now' = now /\ max_backups_to_keep' = max_backups_to_keep)
       => IF max_backups_to_keep > 0
          THEN \A s \in BackupSourceNames :
                  /\ Cardinality(backups_of(backup_destination', s)) <= max_backups_to_keep
                  /\ \A kept \in backups_of(backup_destination', s) :
                        \A gone \in backups_of(backup_destination, s) \ DOMAIN backup_destination' :
                            backup_destination[gone] < backup_destination'[kept]
          ELSE DOMAIN backup_destination \subseteq DOMAIN backup_destination']_vars

(***************************************************************************)
(* Termination of the scan.                                                *)
(***************************************************************************)
\* the lines the restorer of the snapshot file scans: those after the first
\* line, or those of the decompressed text (none when there is nothing to
\* scan)
scanned_lines(name) ==
    LET text == read_file_text(snapshots[name])
        unpacked == decompress_container(rest_after_first_line(text))
    IN  IF ~utf8_valid(snapshots[name]) THEN <<>>
        ELSE IF first_line_of(text) = "COMPRESSED"
        THEN IF unpacked.outcome = "ok" THEN split(unpacked.text, "\n") ELSE <<>>
        ELSE IF Len(split1(text, "\n")) < 2 THEN <<>>
        ELSE split(split1(text, "\n")[2], "\n")

\* the passes the scan makes from line i on, counted up to fuel + 1
RECURSIVE scan_passes(_, _, _)
scan_passes(lines, i, fuel) ==
    IF i > Len(lines) THEN 0
    ELSE IF fuel = 0 THEN 1
    ELSE 1 + scan_passes(lines, scan_next(lines, i), fuel - 1)

\* C25: on the lines of every snapshot file, each pass of the scanning loop
\* of either restorer (marker, error marker, other line) moves the line index
\* forward by at least one, and the scan reaches the end of the lines after
\* at most one pass per line.
C25_ScanTerminates ==
    \A n \in DOMAIN snapshots :
        LET lines == scanned_lines(n)
        IN  /\ \A i \in 1..Len(lines) : scan_next(lines, i) > i
            /\ scan_passes(lines, 1, Len(lines)) <= Len(lines)

\* a restorer has scanned lines that hold a marker, an error marker and a
\* line of content, and is in its loop
C25_Witness ==
    /\ pc = "loop"
    /\ total_blocks >= 2
    /\ LET lines == scanned_lines(txt_path)
       IN  /\ \E i \in 1..Len(lines) : is_file_marker(lines[i])
           /\ \E i \in 1..Len(lines) : startswith(lines[i], "!")
           /\ \E i \in 1..Len(lines) : ~is_file_marker(lines[i]) /\ ~startswith(lines[i], "!")

(***************************************************************************)
(* Paths of the restored entries.                                          *)
(***************************************************************************)
\* the segments of a sanitized path
segments_of(sanitized_file_path, plat) == split(sanitized_file_path, os_sep(plat))

\* the path is relative and has no '..' segment
stays_inside(sanitized_file_path, plat) ==
    /\ ~startswith(sanitized_file_path, os_sep(plat))
    /\ \A k \in 1..Len(segments_of(sanitized_file_path, plat)) :
          segments_of(sanitized_file_path, plat)[k] # ".."

\* C26: for every stored path of an artifact (absolute, with '..' or '.'
\* segments, with empty segments) sanitize_file_path gives a relative path
\* with no '..' segment, and every file or directory the restorer creates
\* lies inside the output folder.
C26_RestoreStaysInside ==
    /\ pc = "loop" =>
          \A i \in 1..total_blocks :
              stays_inside(sanitize_file_path(parts[(3 * (i - 1)) + 2], platform), platform)
    /\ \A key \in DOMAIN dest : ~startswith(key, "/") /\ ~startswith(key, "..")

\* the segment is a legal file name on every supported platform
is_legal_segment(segment) ==
    /\ segment \notin {"", ".", ".."}
    /\ \A k \in 1..Len(segment) : Ch(segment, k) \notin invalid_chars
    /\ upper(splitext(segment)[1]) \notin reserved_names("Windows")
    /\ Len(segment) <= safe_filename_length

\* a relative path with '/' between segments that are all legal
is_legal_path(stored_path) ==
    \A k \in 1..Len(split(stored_path, "/")) : is_legal_segment(split(stored_path, "/")[k])

\* C27: a stored relative path whose every segment is legal on all supported
\* platforms ('.gitignore', 'pkg/__init__.py') comes out of
\* sanitize_file_path unchanged, so its entry is restored at its original
\* relative path.
C27_LegalNamesKept ==
    /\ pc = "loop" =>
          \A i \in 1..total_blocks :
              is_legal_path(parts[(3 * (i - 1)) + 2])
              => full_path(sanitize_file_path(parts[(3 * (i - 1)) + 2], platform), platform)
                     = parts[(3 * (i - 1)) + 2]
    /\ (round_trip_done("txt") \/ round_trip_done("compressed")) =>
          \A k \in 1..Len(source) : is_legal_path(source[k].path) => isfile(dest, source[k].path)

\* the target of record i of the running restore, as a key of the destination
target_of_record(i) ==
    full_path(sanitize_file_path(parts[(3 * (i - 1)) + 2], platform), platform)

\* C28: two records of one artifact with different stored paths are never
\* restored to the same target path, so no record's file is overwritten by a
\* later record of the same restore.
C28_NoTwoRecordsCollide ==
    pc = "loop" =>
        \A i, j \in 1..total_blocks :
            parts[(3 * (i - 1)) + 2] # parts[(3 * (j - 1)) + 2]
            => target_of_record(i) # target_of_record(j)

(***************************************************************************)
(* The kind of a record.                                                   *)
(***************************************************************************)
\* the branch the restoring loop takes for a content block
restored_as(content_block) ==
    IF strip(content_block) = "[EMPTY_DIRECTORY]" THEN "directory"
    ELSE IF startswith(strip(content_block), "[BINARY_FILE_BASE64]") THEN "binary"
    ELSE "text"

\* record i of the running restore stands for a file that the encoder wrote
\* as a text record
is_text_record(i) ==
    \E k \in 1..Len(source) :
        is_text_entry(source[k]) /\ source[k].path = parts[(3 * (i - 1)) + 2]

\* C29: a file that gather_files_to_txt wrote as a text record is restored by
\* restore_files_from_txt as a text file, never as a directory and never
\* through base64 decoding, whatever its first line.
C29_RecordKindPreserved ==
    (pc = "loop" /\ restorer = "txt" /\ txt_path = combined_name)
    => \A i \in 1..total_blocks :
           is_text_record(i) => restored_as(parts[(3 * (i - 1)) + 3]) = "text"

(***************************************************************************)
(* The trailing newline of a text file.                                    *)
(***************************************************************************)
\* the entry is a text file of valid UTF-8 with '\n' line endings, no line
\* of which starts with '@' or '!' and whose first line is neither 'B' nor
\* '[EMPTY_DIRECTORY]'
is_plain_text_entry(f) ==
    /\ is_text_entry(f)
    /\ utf8_valid(f.data)
    /\ ~contains(utf8_decode(f.data), "\r")
    /\ \A k \in 1..Len(split(utf8_decode(f.data), "\n")) :
          /\ ~startswith(split(utf8_decode(f.data), "\n")[k], "@")
          /\ ~startswith(split(utf8_decode(f.data), "\n")[k], "!")
    /\ split(utf8_decode(f.data), "\n")[1] \notin {"B", "[EMPTY_DIRECTORY]"}

\* C30: for such a text file, gather_files_to_txt followed by
\* restore_files_from_txt gives back the text exactly, whether its record is
\* the last of the stream or not: no final newline is added or removed and
\* an empty file stays empty.  The texts are compared as read in text mode.
C30_ExactTrailingNewline ==
    round_trip_done("txt") =>
        \A k \in 1..Len(source) :
            is_plain_text_entry(source[k])
            => /\ isfile(dest, source[k].path)
               /\ read_file_text(dest[source[k].path].data) = read_text(source[k])

====
